---- MODULE Spec2Model ----
EXTENDS Integers, Sequences, FiniteSets, TLC

(***************************************************************************)
(* chord-midi: chord notation -> parsed tree -> resolved chords -> notes.  *)
(* Texts are TLA+ strings; TLC evaluates Len, Head, Tail, SubSeq and \o on *)
(* them, so the parsers below read real text.                              *)
(***************************************************************************)

VARIABLES
    root,       \* chord spec: the key literal of the symbol under resolution
    toks,       \* chord spec: the modifier / tension / bass literals after the key
    src,        \* the source text handed to the parser
    pc,         \* position of the pipeline
    cnode,      \* the parsed ChordNode (key, modifiers as an ordered set, on)
    vec,        \* the modifiers in textual order, as chained before BTreeSet::from_iter
    chord,      \* the Chord being resolved (octave, inversion, key, semitones, on)
    idx,        \* number of modifiers of cnode already applied
    score,      \* midi.rs Score: notes, sustain, rest, pre
    dur,        \* the unit of the measure being interpreted
    mlen,       \* node count of the measure being interpreted
    left,       \* nodes of that measure not yet handled
    budget,     \* nodes the rest of the score may still hold
    hist,       \* the nodes handled so far, each with the unit it was given
    track,      \* the events pushed to the MIDI track, each with its delta
    ast,        \* the score tree: its comments and measures in order
    outs,       \* the renderings made so far, the latest last
    ops         \* the transpositions applied to ast so far

chordVars == <<root, toks, src, cnode, vec, chord, idx>>
interpVars == <<score, dur, mlen, left, budget, hist, track>>
textVars == <<ast, outs, ops>>
vars == <<root, toks, src, pc, cnode, vec, chord, idx, score, dur, mlen, left, budget, hist,
          track, ast, outs, ops>>

None == [none |-> TRUE]

----------------------------------------------------------------------------
(* Bounds *)

MaxMods == 2

\* nodes of a score whose measures are all freely filled
MaxScoreNodes == 3

\* longest measure tried
MaxNodes == 17

\* words of a generated score text
MaxWords == 2

\* renderings of one score
MaxRounds == 2

\* transpositions applied to one score
MaxOps == 2

----------------------------------------------------------------------------
(* u8 / i8 arithmetic *)

U8(x) == x % 256

abs_diff(a, b) == IF a >= b THEN a - b ELSE b - a

----------------------------------------------------------------------------
(* model/pitch.rs *)

\* Pitch is repr(u8): C = 0 .. B = 11
Pitches == 0 .. 11

Pitch_from_str(s) ==
    CASE s = "C" -> 0
      [] s \in {"C#", "Db"} -> 1
      [] s = "D" -> 2
      [] s \in {"D#", "Eb"} -> 3
      [] s \in {"E", "Fb"} -> 4
      [] s \in {"F", "E#"} -> 5
      [] s \in {"F#", "Gb"} -> 6
      [] s = "G" -> 7
      [] s \in {"G#", "Ab"} -> 8
      [] s = "A" -> 9
      [] s \in {"A#", "Bb"} -> 10
      [] s = "B" -> 11
      [] s \in {"B#", "Cb"} -> 1

\* the difference without the + 12 that keeps it positive
Pitch_diff_unshifted(a, b) == U8(a - b) % 12

Pitch_diff(a, b) == U8(a - b + 12) % 12

\* Accidental: "Natural", "Sharp", "Flat"

\* `accidental as u8` / `as i8`: the discriminant of the enum, in declaration order
Accidental_as_u8(a) ==
    CASE a = "Natural" -> 0
      [] a = "Sharp" -> 1
      [] a = "Flat" -> 2

\* impl From<Accidental> for i8
Accidental_into_i8(a) ==
    CASE a = "Natural" -> 0
      [] a = "Sharp" -> 1
      [] a = "Flat" -> -1

Accidental_from_str(s) == IF s = "b" THEN "Flat" ELSE "Sharp"

----------------------------------------------------------------------------
(* model/scale.rs *)

Scale_degrees(scale) ==
    IF scale = "Major" THEN <<2, 2, 1, 2, 2, 2, 1>> ELSE <<2, 1, 2, 2, 1, 2, 2>>

RECURSIVE SumSteps(_, _)
SumSteps(s, k) ==
    IF k = 0 THEN 0 ELSE SumSteps(s, k - 1) + s[((k - 1) % 7) + 1]

Scale_semitone(scale, degree) == SumSteps(Scale_degrees(scale), degree - 1)

----------------------------------------------------------------------------
(* model/key.rs, model/modifier.rs *)

Absolute(p) == [t |-> "Absolute", v |-> p]
Relative(d) == [t |-> "Relative", v |-> d]

Mod(tag, n, a) == [tag |-> tag, n |-> n, a |-> a]
Major(n) == Mod("Major", n, "Natural")
Minor(n) == Mod("Minor", n, "Natural")
MinorMajaor7 == Mod("MinorMajaor7", 0, "Natural")
Sus2 == Mod("Sus2", 0, "Natural")
Sus4 == Mod("Sus4", 0, "Natural")
Flat5th == Mod("Flat5th", 0, "Natural")
Aug == Mod("Aug", 0, "Natural")
Aug7 == Mod("Aug7", 0, "Natural")
Dim == Mod("Dim", 0, "Natural")
Dim7 == Mod("Dim7", 0, "Natural")
Omit(d) == Mod("Omit", d, "Natural")
Add(d) == Mod("Add", d, "Natural")
Tension(d, a) == Mod("Tension", d, a)

\* position of the variant in the enum declaration
TagOrd(tag) ==
    CASE tag = "Major" -> 0
      [] tag = "Minor" -> 1
      [] tag = "MinorMajaor7" -> 2
      [] tag = "Sus2" -> 3
      [] tag = "Sus4" -> 4
      [] tag = "Flat5th" -> 5
      [] tag = "Aug" -> 6
      [] tag = "Aug7" -> 7
      [] tag = "Dim" -> 8
      [] tag = "Dim7" -> 9
      [] tag = "Omit" -> 10
      [] tag = "Add" -> 11
      [] tag = "Tension" -> 12

\* derived Ord: variant, then payload (u8, then the Accidental variant)
Modifier_lt(x, y) ==
    \/ TagOrd(x.tag) < TagOrd(y.tag)
    \/ TagOrd(x.tag) = TagOrd(y.tag) /\ x.n < y.n
    \/ /\ TagOrd(x.tag) = TagOrd(y.tag)
       /\ x.n = y.n
       /\ Accidental_as_u8(x.a) < Accidental_as_u8(y.a)

\* BTreeSet<Modifier>, kept as the sequence its iterator yields
BTreeSet_insert(set, m) ==
    IF \E i \in 1 .. Len(set) : set[i] = m
    THEN set
    ELSE LET k == Cardinality({i \in 1 .. Len(set) : Modifier_lt(set[i], m)})
         IN  SubSeq(set, 1, k) \o <<m>> \o SubSeq(set, k + 1, Len(set))

RECURSIVE BTreeSet_from_iter(_)
BTreeSet_from_iter(items) ==
    IF items = <<>>
    THEN <<>>
    ELSE BTreeSet_insert(BTreeSet_from_iter(SubSeq(items, 1, Len(items) - 1)),
                         items[Len(items)])

----------------------------------------------------------------------------
(* model/chord.rs *)

\* Chord::new
Chord_new(octave, inversion, key) ==
    [octave |-> octave, inversion |-> inversion, key |-> key,
     semitones |-> {}, on |-> None]

\* Chord::scale, on the semitone set
Chord_scale(semitones) ==
    IF Scale_semitone("Minor", 3) \in semitones THEN "Minor" ELSE "Major"

\* a removal that clears the minor-scale slot only
remove_degree_minor_only(semitones, degree) ==
    semitones \ {Scale_semitone("Minor", degree)}

\* Chord::remove_degree
remove_degree(semitones, degree) ==
    (semitones \ {Scale_semitone("Minor", degree)}) \ {Scale_semitone("Major", degree)}

\* a modify_degree that puts the degrees given in place of the whole content
modify_degree_exact(semitones, scale, degrees) ==
    {Scale_semitone(scale, degrees[i]) : i \in DOMAIN degrees}

\* fn modify_degree inside Chord::modify
RECURSIVE modify_degree(_, _, _)
modify_degree(semitones, scale, degrees) ==
    IF degrees = <<>>
    THEN semitones
    ELSE modify_degree(
             remove_degree(semitones, Head(degrees)) \cup {Scale_semitone(scale, Head(degrees))},
             scale, Tail(degrees))

\* remove(&self.scale().semitone(d)); insert(Scale::Major.semitone(d) + delta)
MoveDegree(semitones, d, delta) ==
    (semitones \ {Scale_semitone(Chord_scale(semitones), d)})
        \cup {Scale_semitone("Major", d) + delta}

\* one (s, d) round of the MinorMajaor7 loop
MinorMajorStep(semitones, s, d) ==
    (semitones \ {Scale_semitone(Chord_scale(semitones), d)}) \cup {Scale_semitone(s, d)}

\* the shape of Major(n) / Minor(n)
ShapeDegrees(n) ==
    CASE n = 5 -> <<1, 3, 5>>
      [] n = 6 -> <<1, 3, 5, 6>>
      [] n = 7 -> <<1, 3, 5, 7>>
      [] n = 9 -> <<1, 3, 5, 7, 9>>

\* the seventh of Dim7: Scale::Major.semitone(7) - 1
Dim7Seventh(semitones) == MoveDegree(semitones, 7, -1)

\* insert(self.scale().semitone(d) + a as u8)
TensionSemitone(semitones, d, a) ==
    U8(Scale_semitone(Chord_scale(semitones), d) + Accidental_as_u8(a))

ModOk(semitones) == [ok |-> TRUE, semitones |-> semitones]

\* a `_` arm that skips an unmapped Major(n) / Minor(n)
UnknownModIgnored(semitones) == ModOk(semitones)

\* the `_ => Err(anyhow!("unknown mod"))` arm
UnknownMod(semitones) == [ok |-> FALSE, semitones |-> semitones]

\* Chord::modify: Ok with the new semitone set, or Err("unknown mod")
modify(semitones, m) ==
    CASE m.tag \in {"Major", "Minor"} ->
            IF m.n \in {5, 6, 7, 9}
            THEN ModOk(modify_degree(semitones, m.tag, ShapeDegrees(m.n)))
            ELSE UnknownMod(semitones)
      [] m.tag = "MinorMajaor7" ->
            ModOk(MinorMajorStep(MinorMajorStep(MinorMajorStep(MinorMajorStep(
                      semitones, "Minor", 1), "Minor", 3), "Minor", 5), "Major", 7))
      [] m.tag = "Sus2" -> ModOk(MoveDegree(semitones, 3, -1))
      [] m.tag = "Sus4" -> ModOk(MoveDegree(semitones, 3, 1))
      [] m.tag = "Flat5th" -> ModOk(MoveDegree(semitones, 5, -1))
      [] m.tag = "Aug" -> ModOk(MoveDegree(semitones, 5, 1))
      [] m.tag = "Aug7" -> ModOk(MoveDegree(MoveDegree(semitones, 5, 1), 7, 1))
      [] m.tag = "Dim" -> ModOk(MoveDegree(MoveDegree(semitones, 3, -1), 5, -1))
      [] m.tag = "Dim7" ->
            ModOk(Dim7Seventh(MoveDegree(MoveDegree(semitones, 3, -1), 5, -1)))
      [] m.tag = "Omit" ->
            ModOk(semitones \ {Scale_semitone(Chord_scale(semitones), m.n)})
      [] m.tag = "Add" ->
            ModOk(semitones \cup {Scale_semitone(Chord_scale(semitones), m.n)})
      [] m.tag = "Tension" ->
            ModOk(semitones \cup {TensionSemitone(semitones, m.n, m.a)})

\* BTreeSet<u8>::iter().nth(i)
Nth(semitones, i) ==
    CHOOSE x \in semitones : Cardinality({y \in semitones : y < x}) = i

\* Chord::root_pitch for an Absolute key (a Relative key is an Err)
root_pitch(c) ==
    U8(12 + 12 * c.octave + c.key.v + Nth(c.semitones, c.inversion) - 1)

\* the loop with `d <= diff`: the last of equally close candidates is kept
RECURSIVE MatchLoopLast(_, _, _, _)
MatchLoopLast(base, c, k, best) ==
    LET n == Cardinality(c.semitones) IN
    IF k = 8 * n
    THEN best
    ELSE LET octave == k \div n
             inversion == k % n
             d == abs_diff(base, root_pitch([c EXCEPT !.octave = octave,
                                                      !.inversion = inversion]))
         IN  MatchLoopLast(base, c, k + 1,
                           IF d <= best.diff
                           THEN [diff |-> d, octave |-> octave, inversion |-> inversion]
                           ELSE best)

\* the loop body of match_pitches for candidate number k, octave-major order
RECURSIVE MatchLoop(_, _, _, _)
MatchLoop(base, c, k, best) ==
    LET n == Cardinality(c.semitones) IN
    IF k = 8 * n
    THEN best
    ELSE LET octave == k \div n
             inversion == k % n
             d == abs_diff(base, root_pitch([c EXCEPT !.octave = octave,
                                                      !.inversion = inversion]))
         IN  MatchLoop(base, c, k + 1,
                       IF d < best.diff
                       THEN [diff |-> d, octave |-> octave, inversion |-> inversion]
                       ELSE best)

\* match_pitches: "ok" with (octave, inversion); root_pitch().unwrap() panics
\* on a Relative key as soon as there is a candidate to try
match_pitches(base, c) ==
    IF c.key.t = "Relative" /\ c.semitones # {}
    THEN [status |-> "panic", octave |-> 0, inversion |-> 0]
    ELSE LET best == MatchLoop(base, c, 0, [diff |-> 255, octave |-> 0, inversion |-> 0])
         IN  [status |-> "ok", octave |-> best.octave, inversion |-> best.inversion]

----------------------------------------------------------------------------
(* model/ast.rs *)

ChordNode(key, modifiers, on) == [key |-> key, modifiers |-> modifiers, on |-> on]

\* the `for modifier in &self.modifiers` loop of to_chord, from position i
RECURSIVE ApplyModifiers(_, _, _)
ApplyModifiers(semitones, modifiers, i) ==
    IF i > Len(modifiers)
    THEN ModOk(semitones)
    ELSE LET r == modify(semitones, modifiers[i])
         IN  IF r.ok THEN ApplyModifiers(r.semitones, modifiers, i + 1) ELSE r

\* the voicing step of to_chord: match_pitches(12 * chord.octave, &chord)
Voiced(c) ==
    LET m == match_pitches(U8(12 * c.octave), c)
    IN  [status |-> m.status,
         chord |-> [c EXCEPT !.octave = m.octave, !.inversion = m.inversion]]

\* ChordNode::to_chord
to_chord(node) ==
    LET c0 == [Chord_new(5, 0, node.key) EXCEPT !.on = node.on]
        r == ApplyModifiers(c0.semitones, node.modifiers, 1)
    IN  IF r.ok
        THEN Voiced([c0 EXCEPT !.semitones = r.semitones])
        ELSE [status |-> "UnknownModifier", chord |-> c0]

----------------------------------------------------------------------------
(* nom combinators on text: a result is Ok((rest, value)) or Err::Error *)

POk(rest, val) == [ok |-> TRUE, rest |-> rest, val |-> val]
PErr == [ok |-> FALSE, rest |-> "", val |-> 0]

StartsWith(s, t) == Len(s) >= Len(t) /\ SubSeq(s, 1, Len(t)) = t
Drop(s, k) == SubSeq(s, k + 1, Len(s))

\* nom::bytes::complete::tag
tag(t, s) == IF StartsWith(s, t) THEN POk(Drop(s, Len(t)), t) ELSE PErr

\* sequencing (tuple, preceded, map): F continues from the result of the first parser
AndThen(r, F(_)) == IF r.ok THEN F(r) ELSE PErr

\* alt: the first parser's result, else the second's
OrElse(r, q) == IF r.ok THEN r ELSE q

\* map over the value of a result
MapVal(r, F(_)) == IF r.ok THEN POk(r.rest, F(r.val)) ELSE PErr

\* opt(parser) with the value standing for None
OptOr(r, s, none) == IF r.ok THEN r ELSE POk(s, none)

----------------------------------------------------------------------------
(* parser/chord.rs *)

parser_roman_num(s) ==
    CASE s = "I" -> 1
      [] s = "II" -> 2
      [] s = "III" -> 3
      [] s = "IV" -> 4
      [] s = "V" -> 5
      [] s = "VI" -> 6
      [] s = "VII" -> 7

\* DEGREE_NUMBER_REGEX ^(3|5|6|7|9|11|13), parsed as u8
degree_number_parser(s) ==
    IF StartsWith(s, "3") THEN POk(Drop(s, 1), 3)
    ELSE IF StartsWith(s, "5") THEN POk(Drop(s, 1), 5)
    ELSE IF StartsWith(s, "6") THEN POk(Drop(s, 1), 6)
    ELSE IF StartsWith(s, "7") THEN POk(Drop(s, 1), 7)
    ELSE IF StartsWith(s, "9") THEN POk(Drop(s, 1), 9)
    ELSE IF StartsWith(s, "11") THEN POk(Drop(s, 2), 11)
    ELSE IF StartsWith(s, "13") THEN POk(Drop(s, 2), 13)
    ELSE PErr

\* DEGREE_NAME_REGEX ^(IV|VII|VI|V|III|II|I): the first alternative that matches
degree_name_parser(s) ==
    MapVal(OrElse(tag("IV", s), OrElse(tag("VII", s), OrElse(tag("VI", s),
           OrElse(tag("V", s), OrElse(tag("III", s), OrElse(tag("II", s),
           tag("I", s))))))),
           parser_roman_num)

\* ^([b#])
accidental_parser(s) ==
    MapVal(OrElse(tag("b", s), tag("#", s)), Accidental_from_str)

\* (Scale::Major.semitone(d) as i8 + a as i8) as u8
DegreeSemitone(d, a) == U8(Scale_semitone("Major", d) + Accidental_as_u8(a))

\* tuple((accidental_parser, degree_name_parser))
degree_parser(s) ==
    AndThen(accidental_parser(s), LAMBDA a :
        MapVal(degree_name_parser(a.rest), LAMBDA d : DegreeSemitone(d, a.val)))

\* PITCH_REGEX ^([CDEFGAB][#b]?): the length of the match, 0 for none
PitchMatchLen(s) ==
    IF s = "" \/ SubSeq(s, 1, 1) \notin {"C", "D", "E", "F", "G", "A", "B"} THEN 0
    ELSE IF Len(s) >= 2 /\ SubSeq(s, 2, 2) \in {"#", "b"} THEN 2 ELSE 1

pitch_parser(s) ==
    IF PitchMatchLen(s) = 0
    THEN PErr
    ELSE POk(Drop(s, PitchMatchLen(s)), Pitch_from_str(SubSeq(s, 1, PitchMatchLen(s))))

key_parser(s) ==
    OrElse(MapVal(pitch_parser(s), Absolute), MapVal(degree_parser(s), Relative))

\* tuple((tag(t), degree_number_parser))
TagDegree(t, s) == AndThen(tag(t, s), LAMBDA a : degree_number_parser(a.rest))

\* tuple((tag(t), opt(degree_number_parser))), the degree defaulting to 5
TagOptDegree(t, s) ==
    AndThen(tag(t, s), LAMBDA a : OptOr(degree_number_parser(a.rest), a.rest, 5))

\* tag(t) mapped to the modifier m
TagAs(t, s, m) == MapVal(tag(t, s), LAMBDA x : m)

\* alt((...)): the alternatives in their listed order
modifier_parser(s) ==
    OrElse(TagAs("-5", s, Flat5th), OrElse(TagAs("b5", s, Flat5th),
    OrElse(TagAs("sus2", s, Sus2), OrElse(TagAs("sus4", s, Sus4),
    OrElse(TagAs("dim7", s, Dim7),
    OrElse(TagAs("dim", s, Dim), OrElse(TagAs("o", s, Dim),
    OrElse(TagAs("aug7", s, Aug7),
    OrElse(TagAs("aug", s, Aug), OrElse(TagAs("+", s, Aug),
    OrElse(MapVal(TagDegree("add", s), Add),
    OrElse(MapVal(TagDegree("omit", s), Omit), OrElse(MapVal(TagDegree("no", s), Omit),
    OrElse(TagAs("mM7", s, MinorMajaor7),
    OrElse(MapVal(TagOptDegree("maj", s), Major), OrElse(MapVal(TagOptDegree("M", s), Major),
    OrElse(MapVal(TagOptDegree("m", s), Minor),
    OrElse(AndThen(accidental_parser(s), LAMBDA a :
               MapVal(degree_number_parser(a.rest), LAMBDA d : Tension(d, a.val))),
    MapVal(degree_number_parser(s), Major)))))))))))))))))))

\* many0(modifier_parser)
RECURSIVE ModifiersMany0(_)
ModifiersMany0(s) ==
    OptOr(AndThen(modifier_parser(s), LAMBDA m :
              MapVal(ModifiersMany0(m.rest), LAMBDA more : <<m.val>> \o more)),
          s, <<>>)

\* tuple((opt(accidental_parser), degree_number_parser)) -> Tension
TensionItem(s) ==
    AndThen(OptOr(accidental_parser(s), s, "Natural"), LAMBDA a :
        MapVal(degree_number_parser(a.rest), LAMBDA d : Tension(d, a.val)))

\* the tail of separated_list1(tag(","), item): stops before a separator that no
\* item follows
RECURSIVE TensionListTail(_)
TensionListTail(s) ==
    OptOr(AndThen(tag(",", s), LAMBDA sep :
              AndThen(TensionItem(sep.rest), LAMBDA item :
                  MapVal(TensionListTail(item.rest), LAMBDA more : <<item.val>> \o more))),
          s, <<>>)

\* delimited(tag("("), separated_list1(...), tag(")"))
tensions_parser(s) ==
    AndThen(tag("(", s), LAMBDA open :
        AndThen(TensionItem(open.rest), LAMBDA first :
            AndThen(TensionListTail(first.rest), LAMBDA more :
                MapVal(tag(")", more.rest), LAMBDA x : <<first.val>> \o more.val))))

\* the tuple chord_node_parser maps: key, many0(modifier_parser),
\* opt(tensions_parser), opt(preceded(tag("/"), key_parser))
ChordTuple(s) ==
    AndThen(key_parser(s), LAMBDA key :
        AndThen(ModifiersMany0(key.rest), LAMBDA modifiers :
            AndThen(OptOr(tensions_parser(modifiers.rest), modifiers.rest, <<>>),
                LAMBDA tensions :
                    MapVal(OptOr(AndThen(tag("/", tensions.rest),
                                         LAMBDA slash : key_parser(slash.rest)),
                                 tensions.rest, None),
                           LAMBDA on : [key |-> key.val, modifiers |-> modifiers.val,
                                        tensions |-> tensions.val, on |-> on]))))

\* vec![Modifier::Major(5)].chain(modifiers).chain(tensions.flatten())
ChainedModifiers(t) == <<Major(5)>> \o t.modifiers \o t.tensions

\* a Vec in place of the set: the modifiers stay in textual order
TextualOrder(items) == items

\* the ordered set a ChordNode keeps: BTreeSet::from_iter of the chain
NodeModifiers(items) == BTreeSet_from_iter(items)

chord_node_parser(s) ==
    MapVal(ChordTuple(s), LAMBDA t :
        ChordNode(t.key, NodeModifiers(ChainedModifiers(t)), t.on))

----------------------------------------------------------------------------
(* parser/rechord.rs: a score is the sequence of its comments and measures *)

NodeChord(cn) == [kind |-> "Chord", chord |-> cn]
NodeRest == [kind |-> "Rest", chord |-> None]
NodeSustain == [kind |-> "Sustain", chord |-> None]
NodeRepeat == [kind |-> "Repeat", chord |-> None]

Measure(nodes, br) == [t |-> "Measure", nodes |-> nodes, br |-> br, text |-> ""]
Comment(text) == [t |-> "Comment", nodes |-> <<>>, br |-> FALSE, text |-> text]

\* alt of the four literal nodes and chord_node_parser
node_parser(s) ==
    OrElse(TagAs("=", s, NodeSustain), OrElse(TagAs("_", s, NodeRest),
    OrElse(TagAs("%", s, NodeRepeat), OrElse(TagAs("N.C.", s, NodeRest),
    MapVal(chord_node_parser(s), NodeChord)))))

\* space0, on the spaces of a text
RECURSIVE space0(_)
space0(s) == IF StartsWith(s, " ") THEN space0(Drop(s, 1)) ELSE s

\* not_line_ending: the text up to the next line ending or the end of input
RECURSIVE not_line_ending(_)
not_line_ending(s) ==
    IF s = "" \/ StartsWith(s, "\n")
    THEN POk(s, "")
    ELSE MapVal(not_line_ending(Drop(s, 1)), LAMBDA v : SubSeq(s, 1, 1) \o v)

\* tuple((tag("#"), not_line_ending, line_ending))
comment_parser(s) ==
    AndThen(tag("#", s), LAMBDA h :
        AndThen(not_line_ending(h.rest), LAMBDA c :
            MapVal(tag("\n", c.rest), LAMBDA x : Comment(c.val))))

\* alt((value(false, tag("|")), value(true, line_ending)))
measure_sep(s) == OrElse(TagAs("|", s, FALSE), TagAs("\n", s, TRUE))

\* many0(alt((tag(" "), line_ending)))
RECURSIVE space_or_line_ending_many0(_)
space_or_line_ending_many0(s) ==
    IF StartsWith(s, " ") \/ StartsWith(s, "\n")
    THEN space_or_line_ending_many0(Drop(s, 1))
    ELSE s

\* many0(delimited(space0, node_parser, space0))
RECURSIVE NodesMany0(_)
NodesMany0(s) ==
    OptOr(AndThen(node_parser(space0(s)), LAMBDA n :
              MapVal(NodesMany0(space0(n.rest)), LAMBDA more : <<n.val>> \o more)),
          s, <<>>)

\* many1(...) of the nodes, measure_sep, space_or_line_ending_many0
measure_parser(s) ==
    AndThen(NodesMany0(s), LAMBDA nodes :
        IF nodes.val = <<>>
        THEN PErr
        ELSE AndThen(measure_sep(nodes.rest), LAMBDA br :
                 POk(space_or_line_ending_many0(br.rest), Measure(nodes.val, br.val))))

\* many0(alt((comment_parser, measure_parser)))
RECURSIVE ItemsMany0(_)
ItemsMany0(s) ==
    OptOr(AndThen(OrElse(comment_parser(s), measure_parser(s)), LAMBDA it :
              MapVal(ItemsMany0(it.rest), LAMBDA more : <<it.val>> \o more)),
          s, <<>>)

\* tuple((many1(alt((comment_parser, measure_parser))), eof))
ast_parser(s) ==
    AndThen(ItemsMany0(s), LAMBDA r : IF r.val # <<>> /\ r.rest = "" THEN r ELSE PErr)

----------------------------------------------------------------------------
(* export/rechord.rs and the Display implementations it uses *)

\* Display for u8
RECURSIVE Decimal(_)
Decimal(n) ==
    IF n < 10
    THEN SubSeq("0123456789", n + 1, n + 1)
    ELSE Decimal(n \div 10) \o SubSeq("0123456789", (n % 10) + 1, (n % 10) + 1)

Pitch_to_string(p) ==
    <<"C", "C#", "D", "D#", "E", "F", "F#", "G", "G#", "A", "A#", "B">>[p + 1]

Accidental_to_string(a) ==
    CASE a = "Natural" -> "" [] a = "Sharp" -> "#" [] a = "Flat" -> "b"

\* to_roman_str; "panic" for the `_` arm
to_roman_str(semitone) ==
    IF semitone < 12
    THEN <<"I", "I#", "II", "II#", "III", "IV", "IV#", "V", "V#", "VI", "VI#", "VII">>[semitone + 1]
    ELSE "panic"

\* Degree::from_semitone, as <<degree, accidental>>; <<0, "panic">> for the `_` arm
Degree_from_semitone(semitone) ==
    IF semitone < 12
    THEN <<<<1, "Natural">>, <<1, "Sharp">>, <<2, "Natural">>, <<2, "Sharp">>,
           <<3, "Natural">>, <<4, "Natural">>, <<4, "Sharp">>, <<5, "Natural">>,
           <<5, "Sharp">>, <<6, "Natural">>, <<6, "Sharp">>, <<7, "Natural">>>>[semitone + 1]
    ELSE <<0, "panic">>

\* Display for Degree: to_roman_str(self.0) then the accidental
Degree_to_string(d) == to_roman_str(d[1]) \o Accidental_to_string(d[2])

\* Display for Key; [ok |-> FALSE] when from_semitone panics
Key_to_string(k) ==
    IF k.t = "Absolute"
    THEN [ok |-> TRUE, s |-> Pitch_to_string(k.v)]
    ELSE IF k.v < 12
         THEN [ok |-> TRUE, s |-> Degree_to_string(Degree_from_semitone(k.v))]
         ELSE [ok |-> FALSE, s |-> ""]

\* Display for Modifier
Modifier_to_string(m) ==
    CASE m.tag = "Major" -> IF m.n = 5 THEN "" ELSE Decimal(m.n)
      [] m.tag = "Minor" -> "m" \o Decimal(m.n)
      [] m.tag = "MinorMajaor7" -> "mM7"
      [] m.tag = "Sus2" -> "sus2"
      [] m.tag = "Sus4" -> "sus4"
      [] m.tag = "Flat5th" -> "b5"
      [] m.tag = "Aug" -> "aug"
      [] m.tag = "Aug7" -> "aug7"
      [] m.tag = "Dim" -> "dim"
      [] m.tag = "Dim7" -> "dim7"
      [] m.tag = "Omit" -> "omit" \o Decimal(m.n)
      [] m.tag = "Add" -> "add" \o Decimal(m.n)
      [] m.tag = "Tension" -> Decimal(m.n) \o Accidental_to_string(m.a)

\* the strings ss joined by sep
RECURSIVE Join(_, _)
Join(ss, sep) ==
    IF ss = <<>> THEN ""
    ELSE IF Len(ss) = 1 THEN ss[1]
    ELSE ss[1] \o sep \o Join(Tail(ss), sep)

\* Display for ChordNode: key, modifiers in set order, "/" and the bass
ChordNode_to_string(cn) ==
    LET key == Key_to_string(cn.key)
        on == IF cn.on = None THEN [ok |-> TRUE, s |-> ""] ELSE Key_to_string(cn.on)
    IN  [ok |-> key.ok /\ on.ok,
         s |-> key.s
               \o Join([i \in DOMAIN cn.modifiers |-> Modifier_to_string(cn.modifiers[i])], "")
               \o (IF cn.on = None THEN "" ELSE "/" \o on.s)]

\* Display for Node
Node_to_string(n) ==
    CASE n.kind = "Chord" -> ChordNode_to_string(n.chord)
      [] n.kind = "Rest" -> [ok |-> TRUE, s |-> "N.C."]
      [] n.kind = "Sustain" -> [ok |-> TRUE, s |-> "="]
      [] n.kind = "Repeat" -> [ok |-> TRUE, s |-> "%"]

\* Display for Ast, Comment and Measure arms
Item_to_string(it) ==
    IF it.t = "Comment"
    THEN [ok |-> TRUE, s |-> "# " \o it.text \o "\n"]
    ELSE [ok |-> \A i \in DOMAIN it.nodes : Node_to_string(it.nodes[i]).ok,
          s |-> Join([i \in DOMAIN it.nodes |-> Node_to_string(it.nodes[i]).s], " ")
                \o " | " \o (IF it.br THEN "\n" ELSE "")]

\* Display for Ast, Score arm; [ok |-> FALSE] when a key panics
Ast_to_string(tree) ==
    [ok |-> \A i \in DOMAIN tree : Item_to_string(tree[i]).ok,
     s |-> Join([i \in DOMAIN tree |-> Item_to_string(tree[i]).s], "")]

----------------------------------------------------------------------------
(* midi.rs: note numbers and the rhythm interpreter *)

MEASURE_LENGTH == 16

\* `for _ in 0..chord.inversion { let n = semitones.remove(0); semitones.push(n + 12) }`
RECURSIVE Rotate(_, _)
Rotate(ns, k) ==
    IF k = 0 \/ ns = <<>> THEN ns ELSE Rotate(Tail(ns) \o <<U8(Head(ns) + 12)>>, k - 1)

\* the tones without the pitch of the key
ChordTonesOnC(c) ==
    [i \in 1 .. Cardinality(c.semitones) |-> U8(12 * c.octave + Nth(c.semitones, i - 1))]

\* chord.semitones.iter().map(|s| 12 * chord.octave + p + s), ascending
ChordTones(c) ==
    [i \in 1 .. Cardinality(c.semitones) |->
        U8(12 * c.octave + c.key.v + Nth(c.semitones, i - 1))]

\* into_note_numbers with the bass in the octave of the chord
into_note_numbers_same_octave(c) ==
    LET tones == Rotate(ChordTones(c), c.inversion)
        all == IF c.on # None /\ c.on.t = "Absolute"
               THEN tones \o <<U8(12 * c.octave + c.on.v)>>
               ELSE tones
    IN  [i \in 1 .. Len(all) |-> U8(12 + all[i])]

\* into_note_numbers for an Absolute key: the rotated tones, the bass one octave
\* below (octave >= 1 for every chord the parser can produce), each raised by 12
into_note_numbers(c) ==
    LET tones == Rotate(ChordTones(c), c.inversion)
        all == IF c.on # None /\ c.on.t = "Absolute"
               THEN tones \o <<U8(12 * (c.octave - 1) + c.on.v)>>
               ELSE tones
    IN  [i \in 1 .. Len(all) |-> U8(12 + all[i])]

Note_new(ch, duration) == [chord |-> ch, duration |-> duration]

Score_new == [notes |-> <<>>, sustain |-> 0, rest |-> 0, pre |-> None]


\* Some(vec![]) where no chord is held
HeldNotesEmpty(pre) == IF pre = None THEN <<>> ELSE into_note_numbers(pre)

\* `if let Some(pre) = &self.pre { Some(into_note_numbers(pre)?) } else { None }`
HeldNotes(pre) == IF pre = None THEN None ELSE into_note_numbers(pre)

\* a flush of the hold that a Repeat node, like a Sustain node, does not cause
FlushHoldUnlessRepeat(sc, node) ==
    IF node.kind \notin {"Sustain", "Repeat"} /\ sc.sustain # 0
    THEN [sc EXCEPT !.notes = Append(@, Note_new(HeldNotes(sc.pre), sc.sustain)),
                    !.sustain = 0]
    ELSE sc

\* a flush of the hold before every node, a Sustain node too
FlushHoldAlways(sc, node) ==
    IF sc.sustain # 0
    THEN [sc EXCEPT !.notes = Append(@, Note_new(HeldNotes(sc.pre), sc.sustain)),
                    !.sustain = 0]
    ELSE sc

\* the flush of the hold: `if !matches!(node, Node::Sustain) && self.sustain != 0`
FlushHold(sc, node) ==
    IF node.kind # "Sustain" /\ sc.sustain # 0
    THEN [sc EXCEPT !.notes = Append(@, Note_new(HeldNotes(sc.pre), sc.sustain)),
                    !.sustain = 0]
    ELSE sc

\* a flush of the rest that a Sustain node does not cause
FlushRestUnlessSustain(sc, node) ==
    IF node.kind \notin {"Rest", "Sustain"} /\ sc.rest # 0
    THEN [sc EXCEPT !.notes = Append(@, Note_new(None, sc.rest)), !.rest = 0]
    ELSE sc

\* the flush of the rest: `if !matches!(node, Node::Rest) && self.rest != 0`
FlushRest(sc, node) ==
    IF node.kind # "Rest" /\ sc.rest # 0
    THEN [sc EXCEPT !.notes = Append(@, Note_new(None, sc.rest)), !.rest = 0]
    ELSE sc

\* a `match node` whose Rest arm forgets the chord resolved last
MatchNodeRestClears(sc, node, d) ==
    CASE node.kind = "Chord" ->
            LET r == to_chord(node.chord)
            IN  IF r.status = "ok"
                THEN [status |-> "ok", score |-> [sc EXCEPT !.pre = r.chord, !.sustain = d]]
                ELSE [status |-> r.status, score |-> sc]
      [] node.kind = "Repeat" -> [status |-> "ok", score |-> [sc EXCEPT !.sustain = d]]
      [] node.kind = "Sustain" ->
            [status |-> "ok", score |-> [sc EXCEPT !.sustain = sc.sustain + d]]
      [] node.kind = "Rest" ->
            [status |-> "ok", score |-> [sc EXCEPT !.rest = sc.rest + d, !.pre = None]]

\* the `match node` of interpret_node
MatchNode(sc, node, d) ==
    CASE node.kind = "Chord" ->
            LET r == to_chord(node.chord)
            IN  IF r.status = "ok"
                THEN [status |-> "ok", score |-> [sc EXCEPT !.pre = r.chord, !.sustain = d]]
                ELSE [status |-> r.status, score |-> sc]
      [] node.kind = "Repeat" -> [status |-> "ok", score |-> [sc EXCEPT !.sustain = d]]
      [] node.kind = "Sustain" ->
            [status |-> "ok", score |-> [sc EXCEPT !.sustain = sc.sustain + d]]
      [] node.kind = "Rest" -> [status |-> "ok", score |-> [sc EXCEPT !.rest = sc.rest + d]]

\* Score::interpret_node
interpret_node(sc, node, d) == MatchNode(FlushRest(FlushHold(sc, node), node), node, d)

\* arms for the exact counts 1, 2, 4, 8, 16 only
MeasureArmExact(n) == IF n \in {1, 2, 4, 8, 16} THEN n ELSE 0

\* the divisor measure_unit_size picks for n nodes, 0 for the `_` arm
MeasureArm(n) ==
    IF n = 1 THEN 1
    ELSE IF n = 2 THEN 2
    ELSE IF n \in 3 .. 4 THEN 4
    ELSE IF n \in 5 .. 8 THEN 8
    ELSE IF n \in 9 .. 16 THEN 16
    ELSE 0

\* Score::measure_unit_size: Ok(MEASURE_LENGTH / len) or Err("too many nodes")
measure_unit_size(n) ==
    IF MeasureArm(n) = 0
    THEN [ok |-> FALSE, unit |-> 0]
    ELSE [ok |-> TRUE, unit |-> MEASURE_LENGTH \div MeasureArm(n)]

\* the end of the Ast::Score arm of interpret: the last hold is flushed
FinalFlush(sc) ==
    IF sc.sustain # 0
    THEN [sc EXCEPT !.notes = Append(@, Note_new(HeldNotes(sc.pre), sc.sustain)),
                    !.sustain = 0]
    ELSE sc

----------------------------------------------------------------------------
(* midi.rs: the MIDI track. An event is its kind, its delta in ticks and   *)
(* its note number (0 for the events before the notes).                     *)

UNIT == 256

Event(kind, delta, note) == [kind |-> kind, delta |-> delta, note |-> note]

\* write_notes: a note_on per pitch, the first after `skip` ticks, then a
\* note_off per pitch, the first after `dur` ticks; `*skip = 0` once a
\* note_on was pushed
write_notes(tr, notes, d, skip) ==
    [track |-> tr \o [i \in 1 .. Len(notes) |->
                          Event("note_on", IF i = 1 THEN skip ELSE 0, notes[i])]
                  \o [i \in 1 .. Len(notes) |->
                          Event("note_off", IF i = 1 THEN d ELSE 0, notes[i])],
     skip |-> IF notes = <<>> THEN skip ELSE 0]

\* dump_notes: the `for note in notes` loop from note number k, `skip = dur`
\* on a Note without a chord
RECURSIVE DumpLoop(_, _, _, _)
DumpLoop(tr, notes, k, skip) ==
    IF k > Len(notes)
    THEN tr
    ELSE IF notes[k].chord = None
         THEN DumpLoop(tr, notes, k + 1, notes[k].duration * UNIT)
         ELSE DumpLoop(write_notes(tr, notes[k].chord, notes[k].duration * UNIT, skip).track,
                       notes, k + 1,
                       write_notes(tr, notes[k].chord, notes[k].duration * UNIT, skip).skip)

\* dump_notes: the events of the track pushed to the file
dump_notes(notes) ==
    DumpLoop(<<Event("general_midi", 0, 0), Event("time_signature", 0, 0),
               Event("tempo", 0, 0)>>, notes, 1, 0)

\* `?` on a step of the interpreter: F continues from the score reached
Then(r, F(_)) == IF r.status = "ok" THEN F(r.score) ELSE r

\* interpret, Ast::Measure arm: `for node in measure { self.interpret_node(node, dur)?; }`
RECURSIVE InterpretNodes(_, _, _)
InterpretNodes(sc, nodes, d) ==
    IF nodes = <<>>
    THEN [status |-> "ok", score |-> sc]
    ELSE Then(interpret_node(sc, Head(nodes), d),
              LAMBDA x : InterpretNodes(x, Tail(nodes), d))

\* interpret on one item of the score: Ast::Comment and Ast::Measure arms
InterpretItem(sc, it) ==
    IF it.t = "Comment"
    THEN [status |-> "ok", score |-> sc]
    ELSE IF measure_unit_size(Len(it.nodes)).ok
         THEN InterpretNodes(sc, it.nodes, measure_unit_size(Len(it.nodes)).unit)
         ELSE [status |-> "too_many_nodes", score |-> sc]

\* interpret, Ast::Score arm: `for node in score { self.interpret(*node)? }`
RECURSIVE InterpretItems(_, _)
InterpretItems(sc, items) ==
    IF items = <<>>
    THEN [status |-> "ok", score |-> sc]
    ELSE Then(InterpretItem(sc, Head(items)), LAMBDA x : InterpretItems(x, Tail(items)))

\* Score::new() and interpret on the whole tree
interpret(tree) ==
    Then(InterpretItems(Score_new, tree), LAMBDA x : [status |-> "ok", score |-> FinalFlush(x)])

----------------------------------------------------------------------------
(* model/key.rs, model/transform.rs *)

\* an into_degree that takes the distance of every key, Relative ones too
Key_into_degree_all(k, key) == Relative(Pitch_diff(k.v, key))

Key_into_degree(k, key) == IF k.t = "Absolute" THEN Relative(Pitch_diff(k.v, key)) ELSE k

\* into_pitch without the `% 12`
Key_into_pitch_unwrapped(k, pitch) ==
    IF k.t = "Relative" THEN Absolute(U8(k.v + pitch)) ELSE k

Key_into_pitch(k, pitch) == IF k.t = "Relative" THEN Absolute(U8(k.v + pitch) % 12) ELSE k

\* the map over the nodes of every measure: the key and the bass of each chord
\* node through F, everything else as it is
MapKeys(tree, F(_)) ==
    [i \in DOMAIN tree |->
        [tree[i] EXCEPT !.nodes =
            [j \in DOMAIN @ |->
                IF @[j].kind = "Chord"
                THEN NodeChord([@[j].chord EXCEPT !.key = F(@),
                                                  !.on = IF @ = None THEN None ELSE F(@)])
                ELSE @[j]]]]

Ast_into_degree(tree, key) == MapKeys(tree, LAMBDA k : Key_into_degree(k, key))

Ast_into_pitch(tree, pitch) == MapKeys(tree, LAMBDA k : Key_into_pitch(k, pitch))

----------------------------------------------------------------------------
(* Chord resolution, one symbol at a time:                                 *)
(* chord_node_parser, then ChordNode::to_chord step by step                *)

\* key literal of the generated symbols
Roots == {"C"}

\* literals that may follow the key
Tokens ==
    {"m", "m7", "M7", "7", "9", "11", "m13", "mM7", "sus4", "b5", "aug", "aug7",
     "dim", "dim7", "add9", "no5", "(b9)", "(#11)", "/E"}

\* the symbols of the repository's tests and of the documentation's examples
FixedSymbols ==
    {<<"C", <<"sus2">>>>, <<"C", <<"-5">>>>, <<"C", <<"/D">>>>,
     <<"C", <<"7", "sus4", "(b9)">>>>, <<"C", <<"7", "(13)">>>>,
     <<"Ab", <<"mM7", "/Eb">>>>, <<"C", <<"m", "7", "b5">>>>,
     <<"C", <<"m", "M7", "no7">>>>, <<"C", <<"3">>>>, <<"A", <<"m">>>>,
     <<"F", <<>>>>, <<"G", <<>>>>, <<"C", <<"omit5">>>>, <<"C", <<"(b9,#11)">>>>,
     <<"Db", <<>>>>, <<"C#", <<>>>>, <<"Eb", <<>>>>, <<"D#", <<>>>>,
     <<"Fb", <<>>>>, <<"E", <<>>>>, <<"E#", <<>>>>, <<"Gb", <<>>>>,
     <<"F#", <<>>>>, <<"Ab", <<>>>>, <<"G#", <<>>>>, <<"Bb", <<>>>>,
     <<"A#", <<>>>>, <<"B#", <<>>>>, <<"Cb", <<>>>>, <<"B", <<>>>>,
     <<"#IV", <<>>>>, <<"#IV", <<"m7">>>>, <<"#IV", <<"m13">>>>,
     <<"bVII", <<"7", "(b9)">>>>, <<"#I", <<"/E">>>>}
        \cup {<<"C", <<p \o Decimal(n)>>>> :
                  p \in {"omit", "no", "add"}, n \in {3, 5, 6, 7, 9, 11, 13}}
        \cup {<<a \o d, <<>>>> :
                  a \in {"", "#", "b"}, d \in {"I", "II", "III", "IV", "V", "VI", "VII"}}
        \cup {<<"C", <<"/V">>>>, <<"C", <<"/bVII">>>>}
        \cup {<<r, <<m, "/" \o b>>>> :
                  r \in {"C", "F#", "B"}, m \in {"", "m7", "9"},
                  b \in {"C", "C#", "D", "Eb", "E", "F", "F#", "G", "Ab", "A", "Bb", "B"}}

\* a root followed by up to MaxMods literals, and the fixed symbols
Symbols ==
    (Roots \X UNION {[1 .. n -> Tokens] : n \in 0 .. MaxMods}) \cup FixedSymbols

RECURSIVE Concat(_)
Concat(ts) == IF ts = <<>> THEN "" ELSE Head(ts) \o Concat(Tail(ts))

SymbolText(r, ts) == r \o Concat(ts)

\* the interpreter before any score is given to it
IdleInterp ==
    /\ score = Score_new
    /\ dur = 0
    /\ mlen = 0
    /\ left = 0
    /\ budget = 0
    /\ hist = <<>>
    /\ track = <<>>

\* no score tree held
IdleText ==
    /\ ast = <<>>
    /\ outs = <<>>
    /\ ops = <<>>

InitChord ==
    /\ \E sym \in Symbols :
          /\ root = sym[1]
          /\ toks = sym[2]
          /\ src = SymbolText(sym[1], sym[2])
    /\ pc = "parse"
    /\ cnode = None
    /\ vec = <<>>
    /\ chord = None
    /\ idx = 0
    /\ IdleInterp
    /\ IdleText

\* chord_node_parser on the symbol; text left over is a parse error of the line
ParseChord ==
    /\ pc = "parse"
    /\ LET t == ChordTuple(src) IN
       IF t.ok /\ t.rest = ""
       THEN /\ pc' = "to_chord"
            /\ cnode' = chord_node_parser(src).val
            /\ vec' = ChainedModifiers(t.val)
       ELSE /\ pc' = "parse_error"
            /\ UNCHANGED <<cnode, vec>>
    /\ UNCHANGED <<root, toks, src, chord, idx>>
    /\ UNCHANGED interpVars
    /\ UNCHANGED textVars

\* to_chord: Chord::new(5, 0, key), chord.on = self.on
NewChord ==
    /\ pc = "to_chord"
    /\ chord' = [Chord_new(5, 0, cnode.key) EXCEPT !.on = cnode.on]
    /\ idx' = 0
    /\ pc' = "modify"
    /\ UNCHANGED <<root, toks, src, cnode, vec>>
    /\ UNCHANGED interpVars
    /\ UNCHANGED textVars

\* to_chord: one round of `for modifier in &self.modifiers { chord.modify(modifier)? }`
ModifyStep ==
    /\ pc = "modify"
    /\ idx < Len(cnode.modifiers)
    /\ LET r == modify(chord.semitones, cnode.modifiers[idx + 1]) IN
       IF r.ok
       THEN /\ chord' = [chord EXCEPT !.semitones = r.semitones]
            /\ idx' = idx + 1
            /\ pc' = pc
       ELSE /\ chord' = None
            /\ idx' = idx
            /\ pc' = "UnknownModifier"
    /\ UNCHANGED <<root, toks, src, cnode, vec>>
    /\ UNCHANGED interpVars
    /\ UNCHANGED textVars

\* to_chord: match_pitches and the assignment of octave and inversion
MatchStep ==
    /\ pc = "modify"
    /\ idx = Len(cnode.modifiers)
    /\ LET v == Voiced(chord) IN
       IF v.status = "ok"
       THEN chord' = v.chord /\ pc' = "done"
       ELSE chord' = None /\ pc' = "panic"
    /\ UNCHANGED <<root, toks, src, cnode, vec, idx>>
    /\ UNCHANGED interpVars
    /\ UNCHANGED textVars

NextChord == ParseChord \/ NewChord \/ ModifyStep \/ MatchStep

SpecChord == InitChord /\ [][NextChord]_vars

----------------------------------------------------------------------------
(* The interpreter of midi.rs, one measure and one node at a time: a score  *)
(* is either up to MaxScoreNodes freely chosen nodes in measures of any     *)
(* split, or one longer measure of a free node followed by Sustain nodes.   *)

\* the chord symbols a measure draws from: two that resolve, one with an
\* unmapped shape, one on a degree key
NodeSymbols == {"C", "Am", "C11", "#IV"}

NodeChoices ==
    {NodeChord(chord_node_parser(t).val) : t \in NodeSymbols}
        \cup {NodeRest, NodeSustain, NodeRepeat}

\* the nodes the position after `done` handled nodes of the measure may hold
NodesAt(done) == IF mlen > MaxScoreNodes /\ done > 0 THEN {NodeSustain} ELSE NodeChoices

InitInterp ==
    /\ pc = "measure"
    /\ score = Score_new
    /\ dur = 0
    /\ mlen = 0
    /\ left = 0
    /\ budget = MaxScoreNodes
    /\ hist = <<>>
    /\ track = <<>>
    /\ root = ""
    /\ toks = <<>>
    /\ src = ""
    /\ cnode = None
    /\ vec = <<>>
    /\ chord = None
    /\ idx = 0
    /\ IdleText

\* interpret, Ast::Measure arm: `let dur = Self::measure_unit_size(measure.len()).unwrap()`
BeginMeasure ==
    /\ pc = "measure"
    /\ budget > 0
    /\ \E n \in 1 .. MaxNodes :
          /\ n <= budget \/ (hist = <<>> /\ n > MaxScoreNodes)
          /\ mlen' = n
          /\ budget' = IF n <= budget THEN budget - n ELSE 0
          /\ LET r == measure_unit_size(n) IN
             IF r.ok
             THEN dur' = r.unit /\ left' = n /\ pc' = "nodes"
             ELSE dur' = 0 /\ left' = 0 /\ pc' = "too_many_nodes"
    /\ UNCHANGED <<score, hist, track>>
    /\ UNCHANGED chordVars
    /\ UNCHANGED textVars

\* interpret, Ast::Measure arm: one round of `self.interpret_node(node, dur)?`
InterpretNode ==
    /\ pc = "nodes"
    /\ left > 0
    /\ \E node \in NodesAt(mlen - left) :
          LET r == interpret_node(score, node, dur) IN
          /\ hist' = Append(hist, [node |-> node, unit |-> dur])
          /\ IF r.status = "ok"
             THEN /\ score' = r.score
                  /\ left' = left - 1
                  /\ pc' = IF left = 1 THEN "measure" ELSE "nodes"
             ELSE /\ score' = r.score
                  /\ left' = left
                  /\ pc' = r.status
    /\ UNCHANGED <<dur, mlen, budget, track>>
    /\ UNCHANGED chordVars
    /\ UNCHANGED textVars

\* interpret, Ast::Score arm after the last measure: the flush of the hold;
\* then dump goes on with dump_notes(f, &score.notes, bpm)
Finish ==
    /\ pc = "measure"
    /\ score' = FinalFlush(score)
    /\ track' = dump_notes(FinalFlush(score).notes)
    /\ pc' = "done"
    /\ UNCHANGED <<dur, mlen, left, budget, hist>>
    /\ UNCHANGED chordVars
    /\ UNCHANGED textVars

NextInterp == BeginMeasure \/ InterpretNode \/ Finish

SpecInterp == InitInterp /\ [][NextInterp]_vars

----------------------------------------------------------------------------
(* A score text through the program: RechordParser::parse, then either the  *)
(* interpreter or the renderer, whose output is parsed and rendered again.  *)

Words == {"C", "Am", "#IV", "=", "_", "%"}

Seps == {" ", "|", "\n"}

\* score texts of the repository's tests and of the documentation, and texts
\* with a comment, a tension list, a bass, an omitted degree and degree keys
FixedTexts ==
    {"C | Am F G\n", "# comment\nCCC", "CCC|", "CCC\n", "C\n", "C|", "C",
     "# a\nC | N.C.\n", "C7(b9)|", "C7(#11)|", "Cno5|", "Comit5|", "Cm7b5/G|",
     "C/#V bVII|", "C #I|", "AbmM7/Eb | = _ %\n", "Cdim7 Caug|"}

\* texts of up to MaxWords words, each followed by a separator
GeneratedTexts ==
    {Concat(ws) : ws \in UNION {[1 .. n -> {w \o sep : w \in Words, sep \in Seps}] :
                                   n \in 1 .. MaxWords}}

\* the text the parser is given: the input, then each rendering
CurrentText == IF outs = <<>> THEN src ELSE outs[Len(outs)]

InitText ==
    /\ src \in FixedTexts \cup GeneratedTexts
    /\ pc = "parse"
    /\ ast = <<>>
    /\ outs = <<>>
    /\ ops = <<>>
    /\ root = ""
    /\ toks = <<>>
    /\ cnode = None
    /\ vec = <<>>
    /\ chord = None
    /\ idx = 0
    /\ IdleInterp

\* RechordParser::parse
Parse ==
    /\ pc = "parse"
    /\ LET r == ast_parser(CurrentText) IN
       IF r.ok
       THEN ast' = r.val /\ pc' = "parsed"
       ELSE ast' = <<>> /\ pc' = "parse_error"
    /\ UNCHANGED <<root, toks, src, cnode, vec, chord, idx, outs, ops>>
    /\ UNCHANGED interpVars

\* midi::dump: Score::new(), score.interpret(ast)? and dump_notes
Interpret ==
    /\ pc = "parsed"
    /\ outs = <<>>
    /\ LET r == interpret(ast) IN
       /\ score' = r.score
       /\ pc' = IF r.status = "ok" THEN "interpreted" ELSE r.status
       /\ track' = IF r.status = "ok" THEN dump_notes(r.score.notes) ELSE track
    /\ UNCHANGED <<root, toks, src, cnode, vec, chord, idx, dur, mlen, left, budget, hist>>
    /\ UNCHANGED textVars

\* Display for Ast
Render ==
    /\ pc = "parsed"
    /\ Len(outs) < MaxRounds
    /\ LET r == Ast_to_string(ast) IN
       IF r.ok
       THEN outs' = Append(outs, r.s) /\ pc' = "parse"
       ELSE outs' = outs /\ pc' = "render_panic"
    /\ UNCHANGED <<root, toks, src, cnode, vec, chord, idx, ast, ops>>
    /\ UNCHANGED interpVars

NextText == Parse \/ Interpret \/ Render

SpecText == InitText /\ [][NextText]_vars

----------------------------------------------------------------------------
(* Transposition of a parsed score: Ast::into_degree and Ast::into_pitch,   *)
(* each with any tonic, one after another.                                  *)

TransformTexts ==
    {"C | Am F G\n", "C C# D D# E F F# G G# A A# B|",
     "C/B Db/Bb D/A Eb/Ab E/G F/Gb|", "F#/F G/E G#/D# A/D A#/C# B/C|",
     "# a\nAbmM7/Eb | = _ %\n", "C #IV|", "C/#V bVII|", "C #I|"}

InitTransform ==
    /\ src \in TransformTexts
    /\ ast = ast_parser(src).val
    /\ pc = "ast"
    /\ outs = <<>>
    /\ ops = <<>>
    /\ root = ""
    /\ toks = <<>>
    /\ cnode = None
    /\ vec = <<>>
    /\ chord = None
    /\ idx = 0
    /\ IdleInterp

\* Ast::into_degree(self, key)
IntoDegree ==
    /\ pc = "ast"
    /\ Len(ops) < MaxOps
    /\ \E key \in Pitches :
          /\ ast' = Ast_into_degree(ast, key)
          /\ ops' = Append(ops, <<"into_degree", key>>)
    /\ UNCHANGED <<root, toks, src, pc, cnode, vec, chord, idx, outs>>
    /\ UNCHANGED interpVars

\* Ast::into_pitch(self, pitch)
IntoPitch ==
    /\ pc = "ast"
    /\ Len(ops) < MaxOps
    /\ \E pitch \in Pitches :
          /\ ast' = Ast_into_pitch(ast, pitch)
          /\ ops' = Append(ops, <<"into_pitch", pitch>>)
    /\ UNCHANGED <<root, toks, src, pc, cnode, vec, chord, idx, outs>>
    /\ UNCHANGED interpVars

NextTransform == IntoDegree \/ IntoPitch

SpecTransform == InitTransform /\ [][NextTransform]_vars

----------------------------------------------------------------------------
(* Properties of the interpreter (SpecInterp) *)

\* the nodes of the measure in progress that were handled, with their units
MeasureEntries == SubSeq(hist, Len(hist) - (mlen - left) + 1, Len(hist))

\* the smallest of 1, 2, 4, 8, 16 that is at least n
Slots(n) == CHOOSE p \in {1, 2, 4, 8, 16} : p >= n /\ \A q \in {1, 2, 4, 8, 16} : q >= n => p <= q

HoldEnd(h) ==
    CHOOSE j \in 1 .. Len(h) :
        /\ \A i \in 2 .. j : h[i].node.kind = "Sustain"
        /\ j = Len(h) \/ h[j + 1].node.kind # "Sustain"

RECURSIVE UnitSum(_, _)
UnitSum(h, j) == IF j = 0 THEN 0 ELSE h[j].unit + UnitSum(h, j - 1)

\* C5: a score that opens with Sustain or Repeat, no chord resolved before,
\* is interpreted without error; the hold it opens (that node and the
\* Sustain nodes after it) is kept with no chord while it lasts and becomes the
\* first Note, Note(None, its duration), the only Note when the score ends there
C5_SustainBeforeChord ==
    hist # <<>> /\ hist[1].node.kind \in {"Sustain", "Repeat"} =>
        LET j == HoldEnd(hist)
            d == UnitSum(hist, j)
        IN  /\ Len(hist) = 1 => pc \in {"nodes", "measure", "done"}
            /\ IF j = Len(hist) /\ pc # "done"
               THEN score.notes = <<>> /\ score.sustain = d /\ score.pre = None
               ELSE score.notes # <<>> /\ score.notes[1] = Note_new(None, d)
            /\ j = Len(hist) /\ pc = "done" => score.notes = <<Note_new(None, d)>>

\* the score "= =" was interpreted to its end: one Note(None, 16)
C5_Witness ==
    /\ pc = "done"
    /\ Len(hist) = 2
    /\ hist[1].node = NodeSustain
    /\ hist[2].node = NodeSustain
    /\ score.notes = <<Note_new(None, 16)>>

----------------------------------------------------------------------------
(* Properties of a score text through the program (SpecText) *)

Range(f) == {f[i] : i \in DOMAIN f}

PitchClasses(note) == {n % 12 : n \in Range(note.chord)}

\* C4: the text "C | Am F G" and a newline parses into 2 measures, of 1 and of 3
\* nodes, and is interpreted without error to exactly four Notes, in order C,
\* Am, F, G: durations 16, 4, 4, 4 and pitch classes {0,4,7}, {9,0,4}, {5,9,0},
\* {7,11,2}
C4_EndToEnd ==
    src = "C | Am F G\n" /\ outs = <<>> =>
        /\ pc \in {"parse", "parsed", "interpreted"}
        /\ pc = "parsed" =>
              /\ Len(ast) = 2
              /\ ast[1].t = "Measure" /\ Len(ast[1].nodes) = 1
              /\ ast[2].t = "Measure" /\ Len(ast[2].nodes) = 3
        /\ pc = "interpreted" =>
              /\ Len(score.notes) = 4
              /\ [i \in 1 .. 4 |-> score.notes[i].duration] = <<16, 4, 4, 4>>
              /\ \A i \in 1 .. 4 : score.notes[i].chord # None
              /\ [i \in 1 .. 4 |-> PitchClasses(score.notes[i])]
                    = <<{0, 4, 7}, {9, 0, 4}, {5, 9, 0}, {7, 11, 2}>>

C4_Witness ==
    /\ pc = "interpreted"
    /\ src = "C | Am F G\n"
    /\ Len(score.notes) = 4
    /\ score.sustain = 0

\* C7: the rendering of every parsed score is made, is itself parseable, and
\* renders again to the same text
C7_RenderIdempotent ==
    /\ pc # "render_panic"
    /\ pc = "parse_error" => outs = <<>>
    /\ Len(outs) >= 2 => outs[2] = outs[1]

----------------------------------------------------------------------------
(* Properties of transposition (SpecTransform) *)

\* every chord root and bass of the tree is an Absolute key
AllAbsolute(tree) ==
    \A i \in DOMAIN tree : \A j \in DOMAIN tree[i].nodes :
        tree[i].nodes[j].kind = "Chord" =>
            /\ tree[i].nodes[j].chord.key.t = "Absolute"
            /\ tree[i].nodes[j].chord.on # None => tree[i].nodes[j].chord.on.t = "Absolute"

\* C6: for each of the 12 tonics k, into_degree with k and then into_pitch with
\* k gives back every Absolute key, and so the whole score when all its chord
\* roots and basses are Absolute keys
C6_TransposeInverse ==
    /\ \A p \in Pitches : \A k \in Pitches :
          Key_into_pitch(Key_into_degree(Absolute(p), k), k) = Absolute(p)
    /\ (/\ Len(ops) = 2
        /\ ops[1][1] = "into_degree"
        /\ ops[2] = <<"into_pitch", ops[1][2]>>
        /\ AllAbsolute(ast_parser(src).val))
          => ast = ast_parser(src).val

\* a score with six roots and six basses was keyed to G and back
C6_Witness ==
    /\ ops = <<<<"into_degree", 7>>, <<"into_pitch", 7>>>>
    /\ src = "F#/F G/E G#/D# A/D A#/C# B/C|"
    /\ AllAbsolute(ast_parser(src).val)
    /\ ast = ast_parser(src).val

----------------------------------------------------------------------------
(* Properties of chord resolution (SpecChord) *)

\* C2: the symbols C, Cm, CM7, Cm7b5 and Caug parse and resolve to exactly
\* {0,4,7}, {0,3,7}, {0,4,7,11}, {0,3,6,10} and {0,4,8}; none of them ends in
\* an error
C2_TriadCorrectness ==
    /\ pc \in {"parse_error", "UnknownModifier", "panic"}
          => src \notin {"C", "Cm", "CM7", "Cm7b5", "Caug"}
    /\ pc = "done" =>
          /\ src = "C" => chord.semitones = {0, 4, 7}
          /\ src = "Cm" => chord.semitones = {0, 3, 7}
          /\ src = "CM7" => chord.semitones = {0, 4, 7, 11}
          /\ src = "Cm7b5" => chord.semitones = {0, 3, 6, 10}
          /\ src = "Caug" => chord.semitones = {0, 4, 8}

C2_Witness == pc = "done" /\ src = "Cm7b5" /\ Len(cnode.modifiers) = 3

\* C3: Cdim7 parses and resolves to exactly {0,3,6,9}
C3_Dim7 ==
    /\ pc \in {"parse_error", "UnknownModifier", "panic"} => src # "Cdim7"
    /\ pc = "done" /\ src = "Cdim7" => chord.semitones = {0, 3, 6, 9}

\* the literals ts in every order, and ts with one of its literals repeated
Arrangements(ts) ==
    {[i \in DOMAIN ts |-> ts[q[i]]] :
        q \in {f \in [DOMAIN ts -> DOMAIN ts] : Range(f) = DOMAIN ts}}
        \cup {Append(ts, ts[i]) : i \in DOMAIN ts}

\* the outcome of resolving the symbol of the current state
Outcome ==
    [status |-> IF pc = "done" THEN "ok" ELSE pc, semitones |-> IF pc = "done" THEN chord ELSE None]

ResolveText(text) ==
    LET r == to_chord(chord_node_parser(text).val)
    IN  [status |-> r.status, semitones |-> IF r.status = "ok" THEN r.chord ELSE None]

\* C8: a symbol that has the same root and bass and the same set of modifiers as
\* the resolved one - its literals rearranged or one of them repeated - resolves
\* to the same chord (or fails the same way), and the modifiers are applied in
\* the canonical order: shape modifiers by tag then payload, Omit, Add, Tension
C8_OrderIndependent ==
    /\ pc \in {"done", "UnknownModifier", "panic"} =>
          \A ts \in Arrangements(toks) :
              LET t == ChordTuple(SymbolText(root, ts)) IN
              (/\ t.ok
               /\ t.rest = ""
               /\ t.val.key = cnode.key
               /\ t.val.on = cnode.on
               /\ Range(ChainedModifiers(t.val)) = Range(vec))
                  => ResolveText(SymbolText(root, ts)) = Outcome
    /\ cnode # None =>
          \A i, j \in 1 .. Len(cnode.modifiers) :
              i < j =>
                  \/ TagOrd(cnode.modifiers[i].tag) < TagOrd(cnode.modifiers[j].tag)
                  \/ /\ cnode.modifiers[i].tag = cnode.modifiers[j].tag
                     /\ cnode.modifiers[i] # cnode.modifiers[j]
                     /\ cnode.modifiers[i].n <= cnode.modifiers[j].n

C8_Witness ==
    /\ pc = "done"
    /\ toks = <<"sus4", "m">>
    /\ vec = <<Major(5), Sus4, Minor(5)>>
    /\ chord.semitones = {0, 5, 7}

\* C9: applying Tension(d, accidental) inserts the semitone of degree d in the
\* scale in force plus the accidental's offset (Natural 0, Sharp +1, Flat -1);
\* C7(b9) contains 13 and C7(#11) contains 18
C9_TensionOffset ==
    /\ [][(/\ pc = "modify"
           /\ idx < Len(cnode.modifiers)
           /\ cnode.modifiers[idx + 1].tag = "Tension")
          => (Scale_semitone(Chord_scale(chord.semitones), cnode.modifiers[idx + 1].n)
                + Accidental_into_i8(cnode.modifiers[idx + 1].a)) \in chord'.semitones]_vars
    /\ [](pc = "done" /\ src = "C7(b9)" => 13 \in chord.semitones)
    /\ [](pc = "done" /\ src = "C7(#11)" => 18 \in chord.semitones)

UnmappedShape(m) == m.tag \in {"Major", "Minor"} /\ m.n \notin {5, 6, 7, 9}

\* C10: a chord whose modifiers include Major(n) or Minor(n) with n outside
\* {5,6,7,9} never resolves: to_chord stops with UnknownModifier and no chord
C10_UnknownModifier ==
    (cnode # None /\ \E i \in 1 .. Len(cnode.modifiers) : UnmappedShape(cnode.modifiers[i]))
        => /\ pc \in {"to_chord", "modify", "UnknownModifier"}
           /\ pc = "modify" => idx < Len(cnode.modifiers)
           /\ pc = "UnknownModifier" => chord = None
           /\ to_chord(cnode).status = "UnknownModifier"

C10_Witness == pc = "UnknownModifier" /\ src = "Cm13" /\ chord = None

----------------------------------------------------------------------------
(* resolution without a tonic *)

\* the handled nodes that are chords with a Relative key
RelativeEntries ==
    {i \in DOMAIN hist : /\ hist[i].node.kind = "Chord"
                         /\ hist[i].node.chord.key.t = "Relative"}

\* C11: interpreting a score that holds a chord node with a Relative key,
\* no tonic being set, ends in an error returned as a value (not a panic of
\* the process), wherever in the score the node stands
C11_MissingTonic ==
    RelativeEntries # {} =>
        /\ pc \notin {"nodes", "measure", "done"}
        /\ pc # "panic"

----------------------------------------------------------------------------
(* where a measure ends *)

\* C12: a score whose last measure is followed by '|', by a line ending or
\* by the end of the input is accepted and consumed whole: "# comment\nCCC",
\* "CCC|" and "CCC\n" all parse
C12_MeasureEnd ==
    /\ src \in {"# comment\nCCC", "CCC|", "CCC\n"}
    /\ outs = <<>>
    /\ pc # "parse"
    => /\ pc # "parse_error"
       /\ ast # <<>>
       /\ ast[Len(ast)].t = "Measure"
       /\ Len(ast[Len(ast)].nodes) = 3

----------------------------------------------------------------------------
(* enharmonic pitch literals *)

\* the pairs of literals the documentation lists as one pitch class
EnharmonicPairs ==
    {<<"Db", "C#">>, <<"Eb", "D#">>, <<"Fb", "E">>, <<"E#", "F">>,
     <<"Gb", "F#">>, <<"Ab", "G#">>, <<"Bb", "A#">>, <<"B#", "C#">>,
     <<"Cb", "B">>}

\* C13: the two literals of every listed pair parse to the same pitch class:
\* a chord symbol that is the first literal gets the key of the second
C13_Enharmonic ==
    \A p \in EnharmonicPairs :
        cnode # None /\ toks = <<>> /\ root = p[1] =>
            /\ cnode.key.t = "Absolute"
            /\ pitch_parser(p[2]).ok
            /\ cnode.key.v = pitch_parser(p[2]).val

----------------------------------------------------------------------------
(* the inversion search *)

\* base pitches the search is asked for: to_chord's 12 * 5 and others
MatchBases == {0, 61, 127, 255}

\* the (octave, inversion) pairs the search goes through
Candidates(c) == (0 .. 7) \X (0 .. Cardinality(c.semitones) - 1)

\* how far the root pitch of c, put at candidate q, is from base
CandidateDiff(base, c, q) ==
    LET p == 12 + 12 * q[1] + c.key.v + Nth(c.semitones, q[2]) - 1
    IN  IF base >= p THEN base - p ELSE p - base

\* candidate q comes no later than candidate r: octave first, then inversion
NoLater(q, r) == q[1] < r[1] \/ (q[1] = r[1] /\ q[2] <= r[2])

\* <<octave, inversion>> is what C14 says the search returns for base and c
IsClosestFirst(base, c, q) ==
    /\ q \in Candidates(c)
    /\ \A r \in Candidates(c) :
          /\ CandidateDiff(base, c, q) <= CandidateDiff(base, c, r)
          /\ CandidateDiff(base, c, q) = CandidateDiff(base, c, r) => NoLater(q, r)

\* C14: match_pitches(base, chord) returns the pair (octave, inversion),
\* octave in 0..7 and inversion below the note count, whose root pitch is
\* closest to base, and among equally close pairs the first in ascending
\* octave, then ascending inversion; to_chord gives the chord that pair
C14_MatchPitches ==
    pc = "done" =>
        /\ IsClosestFirst(60, chord, <<chord.octave, chord.inversion>>)
        /\ \A base \in MatchBases :
              LET m == match_pitches(base, chord)
              IN  /\ m.status = "ok"
                  /\ IsClosestFirst(base, chord, <<m.octave, m.inversion>>)

\* the chord C was voiced, and for base 61 its third at octave 4 (63) is as
\* close as its root at octave 4 (59): the root, found first, is returned
C14_Witness ==
    /\ pc = "done"
    /\ src = "C"
    /\ chord.octave = 4 /\ chord.inversion = 0
    /\ CandidateDiff(61, chord, <<4, 0>>) = CandidateDiff(61, chord, <<4, 1>>)
    /\ match_pitches(61, chord).octave = 4
    /\ match_pitches(61, chord).inversion = 0

----------------------------------------------------------------------------
(* model/score.rs: the interpreter that keeps successive chords close *)

\* Chord::distance, the zip of the two sorted semitone lists: the first k pairs
RECURSIVE PairedDist(_, _, _)
PairedDist(a, b, k) ==
    IF k = 0
    THEN 0
    ELSE U8(abs_diff(Nth(a, k - 1), Nth(b, k - 1)) + PairedDist(a, b, k - 1))

\* Chord::distance with the octaves left out of the key distance
Chord_distance_flat(a, b) ==
    IF a.key.t # b.key.t
    THEN [ok |-> FALSE, d |-> 0]
    ELSE [ok |-> TRUE,
          d |-> U8(abs_diff(a.key.v, b.key.v)
                   + PairedDist(a.semitones, b.semitones,
                                IF Cardinality(a.semitones) <= Cardinality(b.semitones)
                                THEN Cardinality(a.semitones)
                                ELSE Cardinality(b.semitones)))]

\* Chord::distance: Err("key type mismatch") when one key is Absolute and
\* the other Relative
Chord_distance(a, b) ==
    IF a.key.t # b.key.t
    THEN [ok |-> FALSE, d |-> 0]
    ELSE [ok |-> TRUE,
          d |-> U8(abs_diff(U8(a.octave * 12 + a.key.v), U8(b.octave * 12 + b.key.v))
                   + PairedDist(a.semitones, b.semitones,
                                IF Cardinality(a.semitones) <= Cardinality(b.semitones)
                                THEN Cardinality(a.semitones)
                                ELSE Cardinality(b.semitones)))]

\* the octave-continuity heuristic: of pre.octave - 1, pre.octave and
\* pre.octave + 1 the octave at which c is at the least distance from pre; of
\* equally distant octaves the one nearest to pre.octave, then the lower one
NearestOctave(c, pre) ==
    LET o == pre.octave
        D(x) == Chord_distance([c EXCEPT !.octave = x], pre).d
        Off(x) == IF x >= o THEN x - o ELSE o - x
    IN  CHOOSE x \in {o - 1, o, o + 1} :
            \A y \in {o - 1, o, o + 1} :
                \/ D(x) < D(y)
                \/ D(x) = D(y) /\ Off(x) < Off(y)
                \/ D(x) = D(y) /\ Off(x) = Off(y) /\ x <= y

\* chord.set_nearest_octabe(pre)
set_nearest_octabe(c, pre) == [c EXCEPT !.octave = NearestOctave(c, pre)]

\* ChordNode::into_chord(octave): the chord of the node at the octave, root
\* position
into_chord(node, octave) ==
    LET c0 == [Chord_new(octave, 0, node.key) EXCEPT !.on = node.on]
        r == ApplyModifiers(c0.semitones, node.modifiers, 1)
    IN  IF r.ok
        THEN [status |-> "ok", chord |-> [c0 EXCEPT !.semitones = r.semitones]]
        ELSE [status |-> "UnknownModifier", chord |-> c0]

\* the flush of the hold: the Note holds the chord itself, self.pre.clone()
Score_FlushHold(sc, node) ==
    IF node.kind # "Sustain" /\ sc.sustain # 0
    THEN [sc EXCEPT !.notes = Append(@, Note_new(sc.pre, sc.sustain)), !.sustain = 0]
    ELSE sc

\* the `match node` of interpret_node; a chord node with a Relative key is
\* the Node::Degree arm, and the score has no key: Err("key is not set")
Score_MatchNode(sc, node, d) ==
    CASE node.kind = "Chord" /\ node.chord.key.t = "Absolute" ->
            LET r == into_chord(node.chord, 5)
            IN  IF r.status = "ok"
                THEN [status |-> "ok",
                      score |-> [sc EXCEPT !.pre = IF sc.pre = None
                                                   THEN r.chord
                                                   ELSE set_nearest_octabe(r.chord, sc.pre),
                                           !.sustain = d]]
                ELSE [status |-> r.status, score |-> sc]
      [] node.kind = "Chord" /\ node.chord.key.t = "Relative" ->
            [status |-> "key_is_not_set", score |-> sc]
      [] node.kind = "Repeat" -> [status |-> "ok", score |-> [sc EXCEPT !.sustain = d]]
      [] node.kind = "Sustain" ->
            [status |-> "ok", score |-> [sc EXCEPT !.sustain = sc.sustain + d]]
      [] node.kind = "Rest" -> [status |-> "ok", score |-> [sc EXCEPT !.rest = sc.rest + d]]

\* Score::interpret_node of model/score.rs
Score_interpret_node(sc, node, d) ==
    Score_MatchNode(FlushRest(Score_FlushHold(sc, node), node), node, d)

\* the number of nodes of a score given to this interpreter, unless it is
\* one long measure
MaxVoiceNodes == 3

\* the nodes of the scores given to this interpreter
VoiceChoices ==
    {NodeChord(chord_node_parser(s).val) : s \in {"C", "B", "F#m7", "#IV"}}
        \cup {NodeRest, NodeSustain, NodeRepeat}

\* into_notes: Score::new(key) with no key, before the first measure
InitVoice ==
    /\ pc = "measure"
    /\ score = Score_new
    /\ dur = 0
    /\ mlen = 0
    /\ left = 0
    /\ budget = MaxVoiceNodes
    /\ hist = <<>>
    /\ track = <<>>
    /\ root = ""
    /\ toks = <<>>
    /\ src = "voice"
    /\ cnode = None
    /\ vec = <<>>
    /\ chord = None
    /\ idx = 0
    /\ IdleText

\* interpret, Ast::Measure arm: `let dur = Self::measure_unit_size(measure.len()).unwrap()`
VoiceMeasure ==
    /\ pc = "measure"
    /\ budget > 0
    /\ \E n \in 1 .. MaxNodes :
          /\ n <= budget \/ (hist = <<>> /\ n > MaxVoiceNodes)
          /\ mlen' = n
          /\ budget' = IF n <= budget THEN budget - n ELSE 0
          /\ LET r == measure_unit_size(n) IN
             IF r.ok
             THEN dur' = r.unit /\ left' = n /\ pc' = "nodes"
             ELSE dur' = 0 /\ left' = 0 /\ pc' = "too_many_nodes"
    /\ UNCHANGED <<score, hist, track>>
    /\ UNCHANGED chordVars
    /\ UNCHANGED textVars

\* interpret, Ast::Measure arm: one round of `self.interpret_node(node, dur)?`
VoiceNode ==
    /\ pc = "nodes"
    /\ left > 0
    /\ \E node \in IF mlen > MaxVoiceNodes /\ mlen > left THEN {NodeSustain} ELSE VoiceChoices :
          LET r == Score_interpret_node(score, node, dur) IN
          /\ hist' = Append(hist, [node |-> node, unit |-> dur])
          /\ score' = r.score
          /\ IF r.status = "ok"
             THEN /\ left' = left - 1
                  /\ pc' = IF left = 1 THEN "measure" ELSE "nodes"
             ELSE /\ left' = left
                  /\ pc' = r.status
    /\ UNCHANGED <<dur, mlen, budget, track>>
    /\ UNCHANGED chordVars
    /\ UNCHANGED textVars

\* interpret, Ast::Score arm after the last measure: the flush of the hold
VoiceFinish ==
    /\ pc = "measure"
    /\ score' = IF score.sustain # 0
                 THEN [score EXCEPT !.notes = Append(@, Note_new(score.pre, score.sustain)),
                                    !.sustain = 0]
                 ELSE score
    /\ pc' = "done"
    /\ UNCHANGED <<dur, mlen, left, budget, hist, track>>
    /\ UNCHANGED chordVars
    /\ UNCHANGED textVars

NextVoice == VoiceMeasure \/ VoiceNode \/ VoiceFinish

SpecVoice == InitVoice /\ [][NextVoice]_vars

----------------------------------------------------------------------------
(* octave continuity *)

\* the absolute difference of two numbers
AbsDiff(x, y) == IF x >= y THEN x - y ELSE y - x

\* the sum of the absolute differences of the first k pairs of two sorted
\* semitone lists
RECURSIVE PairSum(_, _, _)
PairSum(s, t, k) ==
    IF k = 0 THEN 0 ELSE AbsDiff(Nth(s, k - 1), Nth(t, k - 1)) + PairSum(s, t, k - 1)

\* the distance of C15 between chord c put at octave x and the held chord
ContinuityDistance(c, x, held) ==
    AbsDiff(12 * x + c.key.v, 12 * held.octave + held.key.v)
        + PairSum(c.semitones, held.semitones,
                  IF Cardinality(c.semitones) <= Cardinality(held.semitones)
                  THEN Cardinality(c.semitones)
                  ELSE Cardinality(held.semitones))

\* a chord node with an Absolute root is resolved while a chord is held
ResolvesAfterHeld ==
    /\ pc = "nodes"
    /\ score.pre # None
    /\ Len(hist') = Len(hist) + 1
    /\ hist'[Len(hist')].node.kind = "Chord"
    /\ hist'[Len(hist')].node.chord.key.t = "Absolute"
    /\ pc' \in {"nodes", "measure"}

----------------------------------------------------------------------------
(* the two accumulators *)

\* C16: whatever nodes of whatever score were handled so far, the duration
\* of the held chord and the duration of the rest are never both nonzero
C16_OneAccumulator == score.sustain = 0 \/ score.rest = 0

\* a Sustain node was handled after a Rest node: the rest of 8 units was
\* emitted as a Note and the hold accumulates instead
C16_Witness ==
    /\ Len(hist) = 2
    /\ hist[1].node = NodeRest
    /\ hist[2].node = NodeSustain
    /\ score.rest = 0
    /\ score.sustain = 8
    /\ score.notes = <<Note_new(None, 8)>>

----------------------------------------------------------------------------
(* import/sexp.rs: scores written as S-expressions. A score is a sequence  *)
(* of measure forms, each a list of atoms, plain or wrapped in             *)
(* (keyed <pitch> ...): [keyed |-> "" or the pitch, atoms |-> the list]     *)

\* degree_from_str: a roman numeral, an accidental after it
degree_from_str(s) ==
    IF Len(s) >= 2 /\ SubSeq(s, Len(s), Len(s)) \in {"b", "#"}
    THEN U8(Scale_semitone("Major", parser_roman_num(SubSeq(s, 1, Len(s) - 1)))
            + Accidental_as_u8(Accidental_from_str(SubSeq(s, Len(s), Len(s)))))
    ELSE Scale_semitone("Major", parser_roman_num(s))

\* parse_key: PITCH_REGEX matches, the key is the Pitch of the whole atom;
\* otherwise the atom is a degree
parse_key(s) ==
    IF PitchMatchLen(s) > 0 THEN Absolute(Pitch_from_str(s)) ELSE Relative(degree_from_str(s))

\* parse_node on an atom
parse_node(s) ==
    CASE s \in {"N.C.", "_"} -> NodeRest
      [] s = "=" -> NodeSustain
      [] s = "%" -> NodeRepeat
      [] OTHER -> NodeChord(ChordNode(parse_key(s), <<>>, None))

\* parse_ast on the forms of a score: a plain list is a Measure, a keyed
\* list the Measure after into_pitch(pitch)
parse_ast(forms) ==
    [i \in DOMAIN forms |->
        LET m == Measure([j \in DOMAIN forms[i].atoms |-> parse_node(forms[i].atoms[j])], FALSE)
        IN  IF forms[i].keyed = ""
            THEN m
            ELSE Ast_into_pitch(<<m>>, parse_key(forms[i].keyed).v)[1]]

----------------------------------------------------------------------------
(* as_pitch *)

\* key `new` is what C17 says tonic k makes of key `old`
KeyedTo(old, new, k) ==
    IF old.t = "Relative"
    THEN new = [t |-> "Absolute", v |-> (k + old.v) % 12]
    ELSE new = old

\* the step is an into_pitch of the score
IsIntoPitch ==
    /\ Len(ops') = Len(ops) + 1
    /\ ops'[Len(ops')][1] = "into_pitch"

----------------------------------------------------------------------------
(* test_transpose *)

\* the chord nodes of the score as parsed whose key is `key`: <<i, j>> for
\* node j of item i
NodesKeyed(key) ==
    {q \in (DOMAIN ast_parser(src).val) \X (1 .. MaxNodes) :
        /\ q[2] \in DOMAIN ast_parser(src).val[q[1]].nodes
        /\ ast_parser(src).val[q[1]].nodes[q[2]].kind = "Chord"
        /\ ast_parser(src).val[q[1]].nodes[q[2]].chord.key = key}

\* C18: into_pitch with tonic C makes the absolute chord C of a chord node
\* keyed as ChordNode::relative(1) is, Key::Relative(1), and the absolute
\* chord F of a chord node keyed as ChordNode::relative(6) is
C18_TestTranspose ==
    ops = <<<<"into_pitch", Pitch_from_str("C")>>>> =>
        /\ \A q \in NodesKeyed(Relative(1)) :
              ast[q[1]].nodes[q[2]].chord.key = Absolute(Pitch_from_str("C"))
        /\ \A q \in NodesKeyed(Relative(6)) :
              ast[q[1]].nodes[q[2]].chord.key = Absolute(Pitch_from_str("F"))

----------------------------------------------------------------------------
(* Sustain and Repeat *)

\* the step handles one node of a measure
HandlesNode == Len(hist') = Len(hist) + 1

\* the node the step handles
Handled == hist'[Len(hist')].node

\* C19: handling a Sustain node adds the unit of its measure to the hold and
\* appends no Note for the held chord, in whatever measure the Sustain is;
\* handling a node that is not Sustain while a hold is accumulated appends
\* exactly one Note, the held chord with the accumulated duration, and the
\* hold restarts from 0: it is 0 after a Rest, one unit after a chord or a
\* Repeat
C19_Sustain ==
    [][HandlesNode =>
          /\ Handled.kind = "Sustain" =>
                /\ score'.sustain = score.sustain + hist'[Len(hist')].unit
                /\ score'.pre = score.pre
                /\ score'.notes = IF score.rest = 0
                                  THEN score.notes
                                  ELSE Append(score.notes, Note_new(None, score.rest))
          /\ Handled.kind # "Sustain" /\ score.sustain # 0 =>
                /\ score'.notes =
                      Append(score.notes, Note_new(HeldNotes(score.pre), score.sustain))
                /\ score'.sustain =
                      IF Handled.kind = "Rest" \/ pc' \notin {"nodes", "measure"}
                      THEN 0
                      ELSE hist'[Len(hist')].unit]_vars

\* C with a whole measure, then a measure "= _": the Sustain of the second
\* measure extended C to 24 units, and the Rest made one Note of it
C19_Witness ==
    /\ Len(hist) = 3
    /\ hist[1].node.kind = "Chord" /\ hist[1].unit = 16
    /\ hist[2].node = NodeSustain /\ hist[2].unit = 8
    /\ hist[3].node = NodeRest
    /\ score.pre # None
    /\ score.notes = <<Note_new(HeldNotes(score.pre), 24)>>
    /\ score.sustain = 0
    /\ score.rest = 8

\* the Notes emitted before a node that is neither Sustain nor Rest is
\* handled: the accumulated hold, then the accumulated rest
EmittedBefore(sc) ==
    (IF sc.sustain # 0 THEN <<Note_new(HeldNotes(sc.pre), sc.sustain)>> ELSE <<>>)
        \o (IF sc.rest # 0 THEN <<Note_new(None, sc.rest)>> ELSE <<>>)

\* C20: a Repeat node after a resolved chord makes a Note of its own: what
\* was accumulated before it is emitted first, as a separate Note; the Repeat
\* starts a new hold of one unit of its measure with the chord resolved last,
\* unchanged; when the score ends there, that hold is the last Note
C20_Repeat ==
    [][/\ HandlesNode /\ Handled.kind = "Repeat" /\ score.pre # None =>
             /\ score'.notes = score.notes \o EmittedBefore(score)
             /\ score'.sustain = hist'[Len(hist')].unit
             /\ score'.rest = 0
             /\ score'.pre = score.pre
       /\ (/\ pc' = "done"
           /\ hist # <<>>
           /\ hist[Len(hist)].node.kind = "Repeat"
           /\ score.pre # None) =>
             score'.notes =
                 Append(score.notes, Note_new(HeldNotes(score.pre), hist[Len(hist)].unit))]_vars

\* the score "C %" was interpreted to its end: two Notes of 8 units, both
\* with the notes of C as it was voiced
C20_Witness ==
    /\ pc = "done"
    /\ Len(hist) = 2
    /\ hist[1].node = NodeChord(chord_node_parser("C").val)
    /\ hist[2].node = NodeRepeat
    /\ score.pre = to_chord(chord_node_parser("C").val).chord
    /\ score.notes = <<Note_new(into_note_numbers(score.pre), 8),
                       Note_new(into_note_numbers(score.pre), 8)>>

----------------------------------------------------------------------------
(* the shapes of Major(n) and Minor(n) *)

\* the degrees of the shape for n
ShapeSet(n) ==
    CASE n = 5 -> {1, 3, 5}
      [] n = 6 -> {1, 3, 5, 6}
      [] n = 7 -> {1, 3, 5, 7}
      [] n = 9 -> {1, 3, 5, 7, 9}

\* the semitone of a shape degree at its major and at its minor distance
MajorDistance == [d \in {1, 3, 5, 6, 7, 9} |->
                    CASE d = 1 -> 0 [] d = 3 -> 4 [] d = 5 -> 7
                      [] d = 6 -> 9 [] d = 7 -> 11 [] d = 9 -> 14]

MinorDistance == [d \in {1, 3, 5, 6, 7, 9} |->
                    CASE d = 1 -> 0 [] d = 3 -> 3 [] d = 5 -> 7
                      [] d = 6 -> 8 [] d = 7 -> 10 [] d = 9 -> 14]

\* modifier m is Major(n) or Minor(n) with a shape
IsShapeModifier(m) == m.tag \in {"Major", "Minor"} /\ m.n \in {5, 6, 7, 9}

\* the shape of m at the distances of m
ShapeContent(m) ==
    {IF m.tag = "Major" THEN MajorDistance[d] ELSE MinorDistance[d] : d \in ShapeSet(m.n)}

\* C21 as stated: once Major(n) or Minor(n), n in {5, 6, 7, 9}, is applied,
\* the content of the chord is exactly the shape for n at the major or minor
\* distances, whatever the chord held before
C21_ExactShape ==
    /\ pc \in {"modify", "done"}
    /\ idx > 0
    /\ IsShapeModifier(cnode.modifiers[idx])
    => chord.semitones = ShapeContent(cnode.modifiers[idx])

\* C21: applying Major(n) or Minor(n), n in {5, 6, 7, 9}, puts every degree
\* of the shape for n at its major or minor distance, removing that degree's
\* major and minor semitone first, and keeps every other semitone the chord
\* held: the content is the shape exactly when the chord held nothing else
C21_ShapeDegrees ==
    [][/\ pc = "modify"
       /\ idx' = idx + 1
       /\ IsShapeModifier(cnode.modifiers[idx'])
       => LET m == cnode.modifiers[idx']
              slots == {MajorDistance[d] : d \in ShapeSet(m.n)}
                           \cup {MinorDistance[d] : d \in ShapeSet(m.n)}
          IN  /\ chord'.semitones = (chord.semitones \ slots) \cup ShapeContent(m)
              /\ chord.semitones \subseteq slots => chord'.semitones = ShapeContent(m)]_vars

\* "CM7m": Minor(5) was applied to C with its major seventh; the seventh
\* stays with the root, the minor third and the fifth
C21_Witness ==
    /\ src = "CM7m"
    /\ pc = "modify"
    /\ idx = 3
    /\ cnode.modifiers[3] = Minor(5)
    /\ chord.semitones = {0, 3, 7, 11}

----------------------------------------------------------------------------
(* Omit *)

\* C22: once Omit(d) is applied, degree d is in the chord neither at its
\* major-scale nor at its minor-scale semitone, whatever the chord held;
\* the minor-major-seventh chord without its 7, "CmM7no7", is {0, 3, 7}
C22_OmitBothSlots ==
    /\ (/\ pc \in {"modify", "done"}
        /\ idx > 0
        /\ cnode.modifiers[idx].tag = "Omit")
       => /\ Scale_semitone("Major", cnode.modifiers[idx].n) \notin chord.semitones
          /\ Scale_semitone("Minor", cnode.modifiers[idx].n) \notin chord.semitones
    /\ pc = "done" /\ src = "CmM7no7" => chord.semitones = {0, 3, 7}

----------------------------------------------------------------------------
(* omitN, noN, addN *)

\* the chord symbol is C followed by the one literal p N
IsLiteral(p, n) == root = "C" /\ toks = <<p \o Decimal(n)>> /\ pc # "parse"

\* C23: for every N of 3, 5, 6, 7, 9, 11, 13 the literals omitN and noN after
\* a chord root are consumed whole and give Omit(N), and addN gives Add(N)
C23_OmitNoAdd ==
    \A n \in {3, 5, 6, 7, 9, 11, 13} :
        /\ IsLiteral("omit", n) \/ IsLiteral("no", n) =>
              /\ pc # "parse_error"
              /\ vec = <<Major(5), Omit(n)>>
        /\ IsLiteral("add", n) =>
              /\ pc # "parse_error"
              /\ vec = <<Major(5), Add(n)>>

----------------------------------------------------------------------------
(* Roman numeral keys *)

\* C24: a chord symbol whose key is a Roman numeral I..VII, with or without
\* a '#' or 'b' before it, is accepted and has a Relative key (IV, #IV,
\* bVII); so is a numeral as the bass, as V in C/V
C24_RomanKey ==
    /\ \A a \in {"", "#", "b"} : \A d \in {"I", "II", "III", "IV", "V", "VI", "VII"} :
          root = a \o d /\ toks = <<>> /\ pc # "parse" =>
              /\ pc # "parse_error"
              /\ cnode # None
              /\ cnode.key.t = "Relative"
    /\ src = "C/V" /\ pc # "parse" =>
          /\ pc # "parse_error"
          /\ cnode # None
          /\ cnode.on # None
          /\ cnode.on.t = "Relative"

----------------------------------------------------------------------------
(* as_degree *)

\* key `new` is what C25 says tonic k makes of key `old`
DegreedTo(old, new, k) ==
    IF old.t = "Absolute"
    THEN new = [t |-> "Relative", v |-> (old.v - k) % 12]
    ELSE new = old

\* the step is an into_degree of the score
IsIntoDegree ==
    /\ Len(ops') = Len(ops) + 1
    /\ ops'[Len(ops')][1] = "into_degree"

\* C25: into_degree with tonic k replaces every Absolute(p) key, root or
\* bass, by Relative((p - k) mod 12), leaves every Relative key as it is and
\* changes nothing else: the order of the nodes, the modifiers, the Rest,
\* Sustain and Repeat nodes, the comments and the hard breaks stay the same
C25_AsDegree ==
    [][IsIntoDegree =>
          /\ DOMAIN ast' = DOMAIN ast
          /\ \A i \in DOMAIN ast :
                /\ ast'[i].t = ast[i].t
                /\ ast'[i].br = ast[i].br
                /\ ast'[i].text = ast[i].text
                /\ DOMAIN ast'[i].nodes = DOMAIN ast[i].nodes
                /\ \A j \in DOMAIN ast[i].nodes :
                      IF ast[i].nodes[j].kind # "Chord"
                      THEN ast'[i].nodes[j] = ast[i].nodes[j]
                      ELSE /\ ast'[i].nodes[j].kind = "Chord"
                           /\ ast'[i].nodes[j].chord.modifiers = ast[i].nodes[j].chord.modifiers
                           /\ DegreedTo(ast[i].nodes[j].chord.key,
                                        ast'[i].nodes[j].chord.key, ops'[Len(ops')][2])
                           /\ IF ast[i].nodes[j].chord.on = None
                              THEN ast'[i].nodes[j].chord.on = None
                              ELSE /\ ast'[i].nodes[j].chord.on # None
                                   /\ DegreedTo(ast[i].nodes[j].chord.on,
                                                ast'[i].nodes[j].chord.on, ops'[Len(ops')][2])]_vars

\* "C/#V bVII|" was degreed with tonic D: the root C is Relative(10), the
\* bass Relative(8) and the root Relative(13) are as they were
C25_Witness ==
    /\ src = "C/#V bVII|"
    /\ ops = <<<<"into_degree", 2>>>>
    /\ ast[1].nodes[1].chord.key = Relative(10)
    /\ ast[1].nodes[1].chord.on = Relative(8)
    /\ ast[1].nodes[2].chord.key = Relative(13)

----------------------------------------------------------------------------
(* Bass override *)

\* tone number i (from 1) of a chord of n tones in inversion k: the tones
\* taken in ascending order from position k, those before it an octave up
InvertedTone(c, i) ==
    12 + 12 * c.octave + c.key.v
       + Nth(c.semitones, (i - 1 + c.inversion) % Cardinality(c.semitones))
       + (IF i - 1 + c.inversion >= Cardinality(c.semitones) THEN 12 ELSE 0)

\* the resolver has voiced a chord with an Absolute key and an Absolute bass
HasAbsoluteBass ==
    /\ pc = "done"
    /\ chord.key.t = "Absolute"
    /\ chord.on # None
    /\ chord.on.t = "Absolute"

\* C26: for a chord with an Absolute bass override the pitches are the chord
\* tones in the chosen inversion and then exactly one more note, which has
\* the pitch class of the bass and is strictly lower than every chord tone
C26_BassBelow ==
    HasAbsoluteBass =>
        /\ Len(into_note_numbers(chord)) = Cardinality(chord.semitones) + 1
        /\ \A i \in 1 .. Cardinality(chord.semitones) :
              /\ into_note_numbers(chord)[i] = InvertedTone(chord, i)
              /\ into_note_numbers(chord)[Cardinality(chord.semitones) + 1]
                    < into_note_numbers(chord)[i]
        /\ into_note_numbers(chord)[Cardinality(chord.semitones) + 1] % 12 = chord.on.v

\* F#m7/A in octave 3, second inversion: the bass A (45) lies below the tones
\* C#, E, F# and A (61, 64, 66, 69)
C26_Witness ==
    /\ src = "F#m7/A"
    /\ HasAbsoluteBass
    /\ into_note_numbers(chord) = <<61, 64, 66, 69, 45>>

----------------------------------------------------------------------------
(* the time of a score *)

\* the sum of the durations of a list of Notes
RECURSIVE NotesDuration(_)
NotesDuration(notes) ==
    IF notes = <<>> THEN 0 ELSE Head(notes).duration + NotesDuration(Tail(notes))

\* the sum of the units of the nodes handled: unit times node count, over
\* all measures
RECURSIVE HandledDuration(_)
HandledDuration(h) ==
    IF h = <<>> THEN 0 ELSE Head(h).unit + HandledDuration(Tail(h))

\* C27: when a score was interpreted with success, the durations of the
\* Notes add up to the sum over the measures of unit times node count, also
\* when the score ends with Rest nodes
C27_NoTimeLost ==
    pc = "done" => NotesDuration(score.notes) = HandledDuration(hist)

----------------------------------------------------------------------------
(* the ticks of the track *)

\* the absolute tick of event i: the sum of the deltas up to it
RECURSIVE TickOf(_, _)
TickOf(tr, i) == IF i = 0 THEN 0 ELSE tr[i].delta + TickOf(tr, i - 1)

\* the number of events pushed before those of Note k: three before the
\* notes, then a note_on and a note_off per pitch of every earlier chord
RECURSIVE EventsBefore(_, _)
EventsBefore(notes, k) ==
    IF k = 1
    THEN 3
    ELSE EventsBefore(notes, k - 1)
            + (IF notes[k - 1].chord = None THEN 0 ELSE 2 * Len(notes[k - 1].chord))

\* the events of Note k: its note_on events share the tick `start`, its
\* note_off events share one later tick
ChordAt(tr, notes, k, start) ==
    \A i \in 1 .. Len(notes[k].chord) :
        /\ tr[EventsBefore(notes, k) + i].kind = "note_on"
        /\ TickOf(tr, EventsBefore(notes, k) + i) = start
        /\ tr[EventsBefore(notes, k) + Len(notes[k].chord) + i].kind = "note_off"
        /\ TickOf(tr, EventsBefore(notes, k) + Len(notes[k].chord) + i)
              = TickOf(tr, EventsBefore(notes, k) + Len(notes[k].chord) + 1)
        /\ TickOf(tr, EventsBefore(notes, k) + Len(notes[k].chord) + i) > start

\* C28: in the track written for the Notes of a score, the note_on events of
\* a chord share one tick, its note_off events share one later tick, and the
\* chord starts at UNIT times the sum of the durations of the Notes before
\* it, also after two rest Notes in a row
C28_ChordTicks ==
    pc = "done" =>
        \A k \in DOMAIN score.notes :
            score.notes[k].chord # None =>
                ChordAt(track, score.notes, k,
                        UNIT * NotesDuration(SubSeq(score.notes, 1, k - 1)))

----------------------------------------------------------------------------
(* the semitone distance of a degree key *)

\* the major-scale semitone of each numeral
NumeralSemitone ==
    [d \in {"I", "II", "III", "IV", "V", "VI", "VII"} |->
        CASE d = "I" -> 0 [] d = "II" -> 2 [] d = "III" -> 4 [] d = "IV" -> 5
          [] d = "V" -> 7 [] d = "VI" -> 9 [] d = "VII" -> 11]

\* '#' counts +1 and 'b' counts -1
AccidentalOffset == [a \in {"#", "b"} |-> IF a = "#" THEN 1 ELSE -1]

\* C29: the Relative key parsed from a numeral with an accidental holds
\* (major-scale semitone of the numeral + offset of the accidental) mod 12,
\* a distance in 0..11, for the 7 numerals and both accidentals
C29_DegreeSemitone ==
    \A a \in DOMAIN AccidentalOffset, d \in DOMAIN NumeralSemitone :
        src = a \o d /\ pc \notin {"parse", "parse_error"} =>
            /\ cnode.key.t = "Relative"
            /\ cnode.key.v \in 0 .. 11
            /\ cnode.key.v = (NumeralSemitone[d] + AccidentalOffset[a]) % 12

----------------------------------------------------------------------------
(* the chord resolved last, across a rest *)

\* the score is a chord that resolves, a Rest and then node `last`, each
\* with the same unit
IsChordRestThen(last) ==
    /\ Len(hist) = 3
    /\ hist[1].node.kind = "Chord"
    /\ hist[2].node = NodeRest
    /\ hist[3].node = last
    /\ hist[2].unit = hist[1].unit
    /\ hist[3].unit = hist[1].unit

\* C30: handling a Rest node leaves the chord resolved last as it is; for
\* the nodes Chord X, Rest, Sustain, each of unit u, the Notes are X for u,
\* a rest for u and X again for u, and the same with Repeat for Sustain
C30_RestKeepsChord ==
    [][/\ HandlesNode /\ Handled.kind = "Rest" => score'.pre = score.pre
       /\ \A last \in {NodeSustain, NodeRepeat} :
             pc = "done" /\ IsChordRestThen(last) =>
                score.notes =
                    <<Note_new(into_note_numbers(to_chord(hist[1].node.chord).chord),
                               hist[1].unit),
                      Note_new(None, hist[1].unit),
                      Note_new(into_note_numbers(to_chord(hist[1].node.chord).chord),
                               hist[1].unit)>>]_vars

\* Am, Rest, Sustain in one measure, 4 units each: the Notes are Am, a rest
\* and Am again
C30_Witness ==
    /\ pc = "done"
    /\ IsChordRestThen(NodeSustain)
    /\ hist[1].node = NodeChord(chord_node_parser("Am").val)
    /\ score.notes = <<Note_new(<<60, 64, 69>>, 4), Note_new(None, 4),
                       Note_new(<<60, 64, 69>>, 4)>>

====
